---- MODULE Spec2Model ----
(***************************************************************************)
(* LodiTrack driver dashboard: the REST handlers of server/routes.ts over  *)
(* the in-memory MemStorage of server/storage.ts, validated by the insert  *)
(* schemas of shared/schema.ts.                                            *)
(*                                                                         *)
(* One step of the model is one HTTP request handled to completion: a      *)
(* handler makes one call of the storage, and the methods of the first     *)
(* MemStorage class read and write their map without yielding.  SpecRace   *)
(* alone splits PUT /api/inventory/:id at its awaits, to interleave two    *)
(* requests, with either declaration of updateInventoryItem.               *)
(***************************************************************************)
EXTENDS Integers, Sequences, FiniteSets, TLC

VARIABLES
    storage,   \* the exported MemStorage instance: its maps and id counters
    genAI,     \* TRUE iff registerRoutes built a GoogleGenerativeAI client
    running,   \* TRUE while no exception has escaped a request handler
    req,       \* the request handled last
    res,       \* the responses sent for it, in order (one, normally)
    calls,     \* number of generateContent calls made while handling it
    modelReply, \* what the generative model answers to generateContent
    awaitsRead, \* TRUE iff updateInventoryItem awaits its read of the map
               \* (storage.ts:716) rather than reading it in place (:140)
    inflight,  \* the PUT /api/inventory/:id requests whose handler is
               \* suspended at an await, and those that were
    auth,      \* the browser: the state of AuthProvider, the location of
               \* the router, and which of the two Routers is built
    modal      \* the browser: the inventory list as last fetched, the
               \* quantity updates under way, and the clicks made

vars == <<storage, genAI, running, req, res, calls, modelReply, awaitsRead,
          inflight, auth, modal>>

(***************************************************************************)
(* Bounds of the model.                                                    *)
(***************************************************************************)
MaxCreates == 2     \* records created over a run, all maps together
MaxTextLen == 4     \* tokens in a reply of the generative model
MaxClicks == 3      \* clicks on the quantity buttons of the inventory page

(***************************************************************************)
(* JSON values as they arrive in a request body: a type tag and a value.   *)
(***************************************************************************)
Num(n) == [t |-> "number", v |-> n]
Str(s) == [t |-> "string", v |-> s]
Arr(a) == [t |-> "array", v |-> a]
Obj(o) == [t |-> "object", v |-> o]

\* a value of a timestamp column: the instant h hours after the midnight
\* that begins Sunday 2024-01-07 (the server's time zone is taken as UTC)
Dat(h) == [t |-> "date", v |-> h]

\* optional values: undefined is the empty sequence
None == <<>>
Some(v) == <<v>>

EmptyRecord == [f \in {} |-> 0]

\* { ...a, ...b }: the fields of b win
Spread(a, b) ==
    [f \in (DOMAIN a) \cup (DOMAIN b) |-> IF f \in DOMAIN b THEN b[f] ELSE a[f]]

(***************************************************************************)
(* Map<number, T>                                                          *)
(***************************************************************************)
EmptyMap == [k \in {} |-> EmptyRecord]
MapHas(m, k) == k \in DOMAIN m
MapGet(m, k) == IF k \in DOMAIN m THEN Some(m[k]) ELSE None
MapSet(m, k, v) == [x \in (DOMAIN m) \cup {k} |-> IF x = k THEN v ELSE m[x]]
MapDelete(m, k) == [x \in (DOMAIN m) \ {k} |-> m[x]]

Max(S) == CHOOSE x \in S : \A y \in S : y <= x

\* Array.from(map.values()): insertion order.  Keys are inserted in
\* increasing order and set() on a present key keeps its position, so the
\* insertion order is the key order.
RECURSIVE MapValues(_)
MapValues(m) ==
    IF DOMAIN m = {} THEN <<>>
    ELSE LET k == Max(DOMAIN m)
         IN Append(MapValues(MapDelete(m, k)), m[k])

(***************************************************************************)
(* Insert schemas (drizzle-zod createInsertSchema): per field its type and *)
(* whether parse() requires it.  Only the fields the handlers and the      *)
(* store act on are kept; the remaining text columns behave as "name".     *)
(***************************************************************************)
insertInventoryItemSchema ==
    [ id       |-> [type |-> "number", required |-> FALSE],
      name     |-> [type |-> "string", required |-> TRUE],
      quantity |-> [type |-> "number", required |-> TRUE],
      userId   |-> [type |-> "number", required |-> TRUE] ]

insertDeliverySchema ==
    [ destination    |-> [type |-> "string", required |-> TRUE],
      scheduledTime  |-> [type |-> "date", required |-> TRUE],
      status         |-> [type |-> "string", required |-> FALSE],
      assignedDriver |-> [type |-> "number", required |-> FALSE] ]

insertRouteSchema ==
    [ name           |-> [type |-> "string", required |-> TRUE],
      date           |-> [type |-> "date", required |-> TRUE],
      waypoints      |-> [type |-> "json", required |-> TRUE],
      assignedDriver |-> [type |-> "number", required |-> FALSE] ]

insertStationSchema ==
    [ name        |-> [type |-> "string", required |-> TRUE],
      coordinates |-> [type |-> "json", required |-> TRUE],
      distance    |-> [type |-> "number", required |-> FALSE] ]

insertCalendarEventSchema ==
    [ title             |-> [type |-> "string", required |-> TRUE],
      startTime         |-> [type |-> "date", required |-> TRUE],
      relatedDeliveryId |-> [type |-> "number", required |-> FALSE],
      assignedDriver    |-> [type |-> "number", required |-> FALSE] ]

\* the fields of body that fail the schema
ZodIssues(schema, partial, body) ==
    {f \in DOMAIN schema :
        \/ f \notin DOMAIN body /\ schema[f].required /\ ~partial
        \/ f \in DOMAIN body /\ schema[f].type # "json"
                             /\ body[f].t # schema[f].type}

\* schema.parse(body) / schema.partial().parse(body): a ZodError, or the
\* data with unknown keys stripped
ZodParse(schema, partial, body) ==
    LET issues == ZodIssues(schema, partial, body)
    IN IF issues # {}
       THEN [ok |-> FALSE, errors |-> issues, data |-> EmptyRecord]
       ELSE [ok |-> TRUE, errors |-> {},
             data |-> [f \in (DOMAIN body) \cap (DOMAIN schema) |-> body[f].v]]

(***************************************************************************)
(* MemStorage (server/storage.ts, first class).  A method returns the new  *)
(* store and its return value.                                             *)
(***************************************************************************)
sampleUser ==
    [ username |-> "john.driver", password |-> "password123",
      fullName |-> "John Driver", role |-> "Lead Driver",
      email |-> "john.driver@example.com", phoneNumber |-> "+1234567890" ]

\* Array.from(this.users.values()).find(user => user.username === username):
\* username is the JSON value of the request, and === holds for an equal
\* string only
getUserByUsername(st, username) ==
    LET found == SelectSeq(MapValues(st.users),
                           LAMBDA user : /\ username.t = "string"
                                         /\ user.username = username.v)
    IN IF found = <<>> THEN None ELSE Some(found[1])

createUser(st, user) ==
    LET id == st.nextUserId
        newUser == Spread(user, [id |-> id])
    IN [storage |-> [st EXCEPT !.nextUserId = id + 1,
                               !.users = MapSet(@, id, newUser)],
        ret |-> newUser]

emptyStorage ==
    [ users |-> EmptyMap, inventoryItems |-> EmptyMap, deliveries |-> EmptyMap,
      routes |-> EmptyMap, stations |-> EmptyMap, calendarEvents |-> EmptyMap,
      nextUserId |-> 1, nextInventoryItemId |-> 1, nextDeliveryId |-> 1,
      nextRouteId |-> 1, nextStationId |-> 1, nextCalendarEventId |-> 1 ]

\* constructor(): empty maps, counters at 1, then initSampleData()
newMemStorage == createUser(emptyStorage, sampleUser).storage

getInventoryItems(st) == MapValues(st.inventoryItems)
getInventoryItem(st, id) == MapGet(st.inventoryItems, id)

createInventoryItem(st, item) ==
    LET id == st.nextInventoryItemId
        newItem == Spread(item, [id |-> id])
    IN [storage |-> [st EXCEPT !.nextInventoryItemId = id + 1,
                               !.inventoryItems = MapSet(@, id, newItem)],
        ret |-> newItem]

updateInventoryItemKeepsExisting(st, id, item) ==
    IF ~MapHas(st.inventoryItems, id) THEN [storage |-> st, ret |-> None]
    ELSE LET updatedItem == Spread(item, st.inventoryItems[id])
         IN [storage |-> [st EXCEPT !.inventoryItems = MapSet(@, id, updatedItem)],
             ret |-> Some(updatedItem)]

updateInventoryItem(st, id, item) ==
    IF ~MapHas(st.inventoryItems, id) THEN [storage |-> st, ret |-> None]
    ELSE LET updatedItem == Spread(st.inventoryItems[id], item)
         IN [storage |-> [st EXCEPT !.inventoryItems = MapSet(@, id, updatedItem)],
             ret |-> Some(updatedItem)]

\* a delete that reports the record deleted and keeps it
deleteInventoryItemKeepsRecord(st, id) ==
    [storage |-> st, ret |-> MapHas(st.inventoryItems, id)]

deleteInventoryItem(st, id) ==
    [storage |-> [st EXCEPT !.inventoryItems = MapDelete(@, id)],
     ret |-> MapHas(st.inventoryItems, id)]

getDeliveries(st) == MapValues(st.deliveries)
getDelivery(st, id) == MapGet(st.deliveries, id)

\* driverId is parseInt's result: None is NaN, which === no number
getDeliveriesByDriver(st, driverId) ==
    SelectSeq(MapValues(st.deliveries),
              LAMBDA delivery : /\ "assignedDriver" \in DOMAIN delivery
                                /\ driverId # None
                                /\ delivery.assignedDriver = driverId[1])

getDeliveriesByStatus(st, status) ==
    SelectSeq(MapValues(st.deliveries),
              LAMBDA delivery : "status" \in DOMAIN delivery
                                /\ delivery.status = status)

\* setHours(0, 0, 0, 0) of an instant; None is the Invalid Date, which
\* stays invalid and compares false with every instant
StartOfDay(date) == IF date = None THEN None ELSE Some((date[1] \div 24) * 24)
NextDay(targetDate) ==
    IF targetDate = None THEN None ELSE Some(targetDate[1] + 24)

getDeliveriesByDate(st, date) ==
    LET targetDate == StartOfDay(date)
        nextDay == NextDay(targetDate)
    IN SelectSeq(MapValues(st.deliveries),
                 LAMBDA delivery : /\ targetDate # None
                                   /\ delivery.scheduledTime >= targetDate[1]
                                   /\ delivery.scheduledTime < nextDay[1])

createDeliverySmallestFree(st, delivery) ==
    LET id == CHOOSE k \in 1..(Cardinality(DOMAIN st.deliveries) + 1) :
                  /\ k \notin DOMAIN st.deliveries
                  /\ \A l \in 1..(k - 1) : l \in DOMAIN st.deliveries
        newDelivery == Spread(delivery, [id |-> id])
    IN [storage |-> [st EXCEPT !.nextDeliveryId = @ + 1,
                               !.deliveries = MapSet(@, id, newDelivery)],
        ret |-> newDelivery]

createDelivery(st, delivery) ==
    LET id == st.nextDeliveryId
        newDelivery == Spread(delivery, [id |-> id])
    IN [storage |-> [st EXCEPT !.nextDeliveryId = id + 1,
                               !.deliveries = MapSet(@, id, newDelivery)],
        ret |-> newDelivery]

updateDeliveryUpsert(st, id, delivery) ==
    LET existingDelivery == IF MapHas(st.deliveries, id) THEN st.deliveries[id]
                            ELSE [id |-> id]
        updatedDelivery == Spread(existingDelivery, delivery)
    IN [storage |-> [st EXCEPT !.deliveries = MapSet(@, id, updatedDelivery)],
        ret |-> Some(updatedDelivery)]

updateDelivery(st, id, delivery) ==
    IF ~MapHas(st.deliveries, id) THEN [storage |-> st, ret |-> None]
    ELSE LET updatedDelivery == Spread(st.deliveries[id], delivery)
         IN [storage |-> [st EXCEPT !.deliveries = MapSet(@, id, updatedDelivery)],
             ret |-> Some(updatedDelivery)]

\* a delete that also drops the routes whose waypoints name the delivery
deleteDeliveryCascade(st, id) ==
    LET kept == {k \in DOMAIN st.routes :
                    \A n \in 1..Len(st.routes[k].waypoints) :
                       st.routes[k].waypoints[n] # id}
    IN [storage |-> [st EXCEPT !.deliveries = MapDelete(@, id),
                               !.routes = [k \in kept |-> st.routes[k]]],
        ret |-> MapHas(st.deliveries, id)]

deleteDeliveryAlwaysTrue(st, id) ==
    [storage |-> [st EXCEPT !.deliveries = MapDelete(@, id)], ret |-> TRUE]

deleteDelivery(st, id) ==
    [storage |-> [st EXCEPT !.deliveries = MapDelete(@, id)],
     ret |-> MapHas(st.deliveries, id)]

getRoutes(st) == MapValues(st.routes)
getRoute(st, id) == MapGet(st.routes, id)

getRoutesByDriver(st, driverId) ==
    SelectSeq(MapValues(st.routes),
              LAMBDA route : /\ "assignedDriver" \in DOMAIN route
                             /\ driverId # None
                             /\ route.assignedDriver = driverId[1])

getRoutesByDate(st, date) ==
    LET targetDate == StartOfDay(date)
        nextDay == NextDay(targetDate)
    IN SelectSeq(MapValues(st.routes),
                 LAMBDA route : /\ targetDate # None
                                /\ route.date >= targetDate[1]
                                /\ route.date < nextDay[1])

createRouteReversed(st, route) ==
    LET id == st.nextRouteId
        w == route.waypoints
        newRoute == Spread(route, [id |-> id,
                                   waypoints |-> [k \in 1..Len(w) |-> w[Len(w) + 1 - k]]])
    IN [storage |-> [st EXCEPT !.nextRouteId = id + 1,
                               !.routes = MapSet(@, id, newRoute)],
        ret |-> newRoute]

createRoute(st, route) ==
    LET id == st.nextRouteId
        newRoute == Spread(route, [id |-> id])
    IN [storage |-> [st EXCEPT !.nextRouteId = id + 1,
                               !.routes = MapSet(@, id, newRoute)],
        ret |-> newRoute]

getCalendarEvents(st) == MapValues(st.calendarEvents)

getCalendarEventsByDriver(st, driverId) ==
    SelectSeq(MapValues(st.calendarEvents),
              LAMBDA event : /\ "assignedDriver" \in DOMAIN event
                             /\ driverId # None
                             /\ event.assignedDriver = driverId[1])

getCalendarEventsByDateRange(st, startDate, endDate) ==
    SelectSeq(MapValues(st.calendarEvents),
              LAMBDA event : /\ startDate # None
                             /\ endDate # None
                             /\ event.startTime >= startDate[1]
                             /\ event.startTime <= endDate[1])

createCalendarEvent(st, event) ==
    LET id == st.nextCalendarEventId
        newEvent == Spread(event, [id |-> id])
    IN [storage |-> [st EXCEPT !.nextCalendarEventId = id + 1,
                               !.calendarEvents = MapSet(@, id, newEvent)],
        ret |-> newEvent]

updateCalendarEvent(st, id, event) ==
    IF ~MapHas(st.calendarEvents, id) THEN [storage |-> st, ret |-> None]
    ELSE LET updatedEvent == Spread(st.calendarEvents[id], event)
         IN [storage |-> [st EXCEPT !.calendarEvents = MapSet(@, id, updatedEvent)],
             ret |-> Some(updatedEvent)]

deleteCalendarEvent(st, id) ==
    [storage |-> [st EXCEPT !.calendarEvents = MapDelete(@, id)],
     ret |-> MapHas(st.calendarEvents, id)]

(***************************************************************************)
(* Requests.  caller is the id of the user who issued the request (the     *)
(* sample user, 1); upstream is what the generative model would answer if  *)
(* the handler called it.                                                  *)
(***************************************************************************)
NoQuery ==
    [status |-> None, date |-> None, driverId |-> None, lat |-> None,
     lng |-> None, radius |-> None, start |-> None, end |-> None]
NoUpstream == [ok |-> TRUE, text |-> <<>>, message |-> ""]

Request(method, path, id, query, body, caller, upstream) ==
    [id |-> id, body |-> body, method |-> method, path |-> path,
     query |-> query, caller |-> caller, upstream |-> upstream]

\* what a handler did: the store it left, the responses it sent, the
\* generateContent calls it made, whether an exception escaped it
Out(st, sent, n, escaped) ==
    [storage |-> st, sent |-> sent, calls |-> n, escaped |-> escaped]

Response(status, body) == [status |-> status, body |-> body]

\* res.status(status).json(body) as the only thing the handler sends
Reply(st, status, body) == Out(st, <<Response(status, body)>>, 0, FALSE)

\* a query-string parameter is a string; a non-empty string is truthy
Truthy(param) == param # None /\ param[1] # ""

\* parseInt on the strings the model uses; None is NaN
parseInt(s) ==
    CASE s = "1" -> Some(1)
      [] s = "2" -> Some(2)
      [] OTHER -> None

\* the days of the week of 2024-01-07, as format(day, 'yyyy-MM-dd') writes them
DayNames ==
    << "2024-01-07", "2024-01-08", "2024-01-09", "2024-01-10", "2024-01-11",
       "2024-01-12", "2024-01-13" >>

\* new Date(s) of a query string: midnight of the day s names, or None for
\* the Invalid Date of any other string
NewDate(s) ==
    IF \E k \in DOMAIN DayNames : DayNames[k] = s
    THEN Some(((CHOOSE k \in DOMAIN DayNames : DayNames[k] = s) - 1) * 24)
    ELSE None

(***************************************************************************)
(* Handlers of server/routes.ts.  key is the genAI of registerRoutes, st   *)
(* the store, rq the request.                                              *)
(***************************************************************************)
GetInventory(key, st, rq) == Reply(st, 200, getInventoryItems(st))

GetInventoryId(key, st, rq) ==
    LET item == getInventoryItem(st, rq.id)
    IN IF item = None
       THEN Reply(st, 404, [message |-> "Inventory item not found"])
       ELSE Reply(st, 200, item[1])

PostInventory(key, st, rq) ==
    LET validatedData == ZodParse(insertInventoryItemSchema, FALSE, rq.body)
    IN IF ~validatedData.ok
       THEN Reply(st, 400, [message |-> "Invalid inventory item data",
                            errors |-> validatedData.errors])
       ELSE LET created == createInventoryItem(st, validatedData.data)
            IN Reply(created.storage, 201, created.ret)

PutInventoryId(key, st, rq) ==
    LET validatedData == ZodParse(insertInventoryItemSchema, TRUE, rq.body)
    IN IF ~validatedData.ok
       THEN Reply(st, 400, [message |-> "Invalid inventory item data",
                            errors |-> validatedData.errors])
       ELSE LET updated == updateInventoryItem(st, rq.id, validatedData.data)
            IN IF updated.ret = None
               THEN Reply(st, 404, [message |-> "Inventory item not found"])
               ELSE Reply(updated.storage, 200, updated.ret[1])

DeleteInventoryId(key, st, rq) ==
    LET deleted == deleteInventoryItem(st, rq.id)
    IN IF ~deleted.ret
       THEN Reply(deleted.storage, 404, [message |-> "Inventory item not found"])
       ELSE Reply(deleted.storage, 204, EmptyRecord)

GetDeliveriesCombined(key, st, rq) ==
    LET status == rq.query.status
        driverId == rq.query.driverId
        byStatus == IF Truthy(status)
                    THEN getDeliveriesByStatus(st, status[1])
                    ELSE getDeliveries(st)
    IN Reply(st, 200,
             IF Truthy(driverId)
             THEN SelectSeq(byStatus,
                            LAMBDA delivery :
                               /\ "assignedDriver" \in DOMAIN delivery
                               /\ Some(delivery.assignedDriver) = parseInt(driverId[1]))
             ELSE byStatus)

GetDeliveries(key, st, rq) ==
    LET status == rq.query.status
        driverId == rq.query.driverId
        date == rq.query.date
    IN IF Truthy(status)
       THEN Reply(st, 200, getDeliveriesByStatus(st, status[1]))
       ELSE IF Truthy(driverId)
       THEN Reply(st, 200, getDeliveriesByDriver(st, parseInt(driverId[1])))
       ELSE IF Truthy(date)
       THEN Reply(st, 200, getDeliveriesByDate(st, NewDate(date[1])))
       ELSE Reply(st, 200, getDeliveries(st))

GetDeliveriesId(key, st, rq) ==
    LET delivery == getDelivery(st, rq.id)
    IN IF delivery = None
       THEN Reply(st, 404, [message |-> "Delivery not found"])
       ELSE Reply(st, 200, delivery[1])

PostDeliveries(key, st, rq) ==
    LET validatedData == ZodParse(insertDeliverySchema, FALSE, rq.body)
    IN IF ~validatedData.ok
       THEN Reply(st, 400, [message |-> "Invalid delivery data",
                            errors |-> validatedData.errors])
       ELSE LET created == createDelivery(st, validatedData.data)
            IN Reply(created.storage, 201, created.ret)

PutDeliveriesId(key, st, rq) ==
    LET validatedData == ZodParse(insertDeliverySchema, TRUE, rq.body)
    IN IF ~validatedData.ok
       THEN Reply(st, 400, [message |-> "Invalid delivery data",
                            errors |-> validatedData.errors])
       ELSE LET updated == updateDelivery(st, rq.id, validatedData.data)
            IN IF updated.ret = None
               THEN Reply(st, 404, [message |-> "Delivery not found"])
               ELSE Reply(updated.storage, 200, updated.ret[1])

DeleteDeliveriesId(key, st, rq) ==
    LET deleted == deleteDelivery(st, rq.id)
    IN IF ~deleted.ret
       THEN Reply(deleted.storage, 404, [message |-> "Delivery not found"])
       ELSE Reply(deleted.storage, 204, EmptyRecord)

GetRoutes(key, st, rq) ==
    LET driverId == rq.query.driverId
        date == rq.query.date
    IN IF Truthy(driverId)
       THEN Reply(st, 200, getRoutesByDriver(st, parseInt(driverId[1])))
       ELSE IF Truthy(date)
       THEN Reply(st, 200, getRoutesByDate(st, NewDate(date[1])))
       ELSE Reply(st, 200, getRoutes(st))

GetRoutesId(key, st, rq) ==
    LET route == getRoute(st, rq.id)
    IN IF route = None
       THEN Reply(st, 404, [message |-> "Route not found"])
       ELSE Reply(st, 200, route[1])

PostRoutes(key, st, rq) ==
    LET validatedData == ZodParse(insertRouteSchema, FALSE, rq.body)
    IN IF ~validatedData.ok
       THEN Reply(st, 400, [message |-> "Invalid route data",
                            errors |-> validatedData.errors])
       ELSE LET created == createRoute(st, validatedData.data)
            IN Reply(created.storage, 201, created.ret)

GetCalendar(key, st, rq) ==
    LET driverId == rq.query.driverId
        start == rq.query.start
        end == rq.query.end
    IN IF Truthy(driverId)
       THEN Reply(st, 200, getCalendarEventsByDriver(st, parseInt(driverId[1])))
       ELSE IF Truthy(start) /\ Truthy(end)
       THEN Reply(st, 200, getCalendarEventsByDateRange(st, NewDate(start[1]),
                                                        NewDate(end[1])))
       ELSE Reply(st, 200, getCalendarEvents(st))

PostCalendar(key, st, rq) ==
    LET validatedData == ZodParse(insertCalendarEventSchema, FALSE, rq.body)
    IN IF ~validatedData.ok
       THEN Reply(st, 400, [message |-> "Invalid calendar event data",
                            errors |-> validatedData.errors])
       ELSE LET created == createCalendarEvent(st, validatedData.data)
            IN Reply(created.storage, 201, created.ret)

PutCalendarIdNoZodBranch(key, st, rq) ==
    LET validatedData == ZodParse(insertCalendarEventSchema, TRUE, rq.body)
    IN IF ~validatedData.ok
       THEN Reply(st, 500, [message |-> "Failed to update calendar event"])
       ELSE LET updated == updateCalendarEvent(st, rq.id, validatedData.data)
            IN IF updated.ret = None
               THEN Reply(st, 404, [message |-> "Calendar event not found"])
               ELSE Reply(updated.storage, 200, updated.ret[1])

PutCalendarId(key, st, rq) ==
    LET validatedData == ZodParse(insertCalendarEventSchema, TRUE, rq.body)
    IN IF ~validatedData.ok
       THEN Reply(st, 400, [message |-> "Invalid calendar event data",
                            errors |-> validatedData.errors])
       ELSE LET updated == updateCalendarEvent(st, rq.id, validatedData.data)
            IN IF updated.ret = None
               THEN Reply(st, 404, [message |-> "Calendar event not found"])
               ELSE Reply(updated.storage, 200, updated.ret[1])

DeleteCalendarId(key, st, rq) ==
    LET deleted == deleteCalendarEvent(st, rq.id)
    IN IF ~deleted.ret
       THEN Reply(deleted.storage, 404, [message |-> "Calendar event not found"])
       ELSE Reply(deleted.storage, 204, EmptyRecord)

(***************************************************************************)
(* Stations.  Coordinates are whole degrees on the grid lat 0..1,          *)
(* lng 0..2; distances are in metres (the code's kilometres times 1000,    *)
(* rounded to the nearest metre).                                          *)
(***************************************************************************)
Abs(x) == IF x < 0 THEN -x ELSE x

\* calculateDistance: the value of the Haversine formula with R = 6371 km
\* at each pair of grid points; it depends on the two latitudes and on the
\* absolute difference of the longitudes only.
calculateDistance(lat1, lng1, lat2, lng2) ==
    LET dLng == Abs(lng2 - lng1)
    IN CASE lat1 = lat2 /\ dLng = 0 -> 0
         [] lat1 = 0 /\ lat2 = 0 /\ dLng = 1 -> 111195
         [] lat1 = 0 /\ lat2 = 0 /\ dLng = 2 -> 222390
         [] lat1 = 1 /\ lat2 = 1 /\ dLng = 1 -> 111178
         [] lat1 = 1 /\ lat2 = 1 /\ dLng = 2 -> 222356
         [] lat1 # lat2 /\ dLng = 0 -> 111195
         [] lat1 # lat2 /\ dLng = 1 -> 157249
         [] lat1 # lat2 /\ dLng = 2 -> 248629

\* Array.prototype.sort((a, b) => a.distance - b.distance): ascending and
\* stable
RECURSIVE InsertByDistance(_, _)
InsertByDistance(sorted, x) ==
    IF sorted = <<>> THEN <<x>>
    ELSE IF sorted[Len(sorted)].distance - x.distance <= 0
         THEN Append(sorted, x)
         ELSE Append(InsertByDistance(SubSeq(sorted, 1, Len(sorted) - 1), x),
                     sorted[Len(sorted)])

RECURSIVE SortByDistance(_)
SortByDistance(a) ==
    IF a = <<>> THEN <<>>
    ELSE InsertByDistance(SortByDistance(SubSeq(a, 1, Len(a) - 1)), a[Len(a)])

getStations(st) == MapValues(st.stations)

\* { ...station, distance } for the query point
withDistance(station, lat, lng) ==
    Spread(station,
           [distance |-> calculateDistance(lat, lng, station.coordinates.lat,
                                           station.coordinates.lng)])

\* radius is in kilometres, as in the code
getNearbyStationsUnsorted(st, lat, lng, radius) ==
    LET all == MapValues(st.stations)
        mapped == [i \in 1..Len(all) |-> withDistance(all[i], lat, lng)]
    IN SelectSeq(mapped, LAMBDA station : station.distance <= radius * 1000)

getNearbyStations(st, lat, lng, radius) ==
    LET all == MapValues(st.stations)
        mapped == [i \in 1..Len(all) |-> withDistance(all[i], lat, lng)]
    IN SortByDistance(
           SelectSeq(mapped, LAMBDA station : station.distance <= radius * 1000))

createStation(st, station) ==
    LET id == st.nextStationId
        newStation == Spread(station, [id |-> id])
    IN [storage |-> [st EXCEPT !.nextStationId = id + 1,
                               !.stations = MapSet(@, id, newStation)],
        ret |-> newStation]

\* parseFloat on the decimal strings the model uses
parseFloat(s) ==
    CASE s = "0" -> 0
      [] s = "1" -> 1
      [] s = "2" -> 2
      [] s = "120" -> 120
      [] s = "250" -> 250

GetStations(key, st, rq) ==
    IF Truthy(rq.query.lat) /\ Truthy(rq.query.lng) /\ Truthy(rq.query.radius)
    THEN Reply(st, 200, getNearbyStations(st, parseFloat(rq.query.lat[1]),
                                          parseFloat(rq.query.lng[1]),
                                          parseFloat(rq.query.radius[1])))
    ELSE Reply(st, 200, getStations(st))

PostStations(key, st, rq) ==
    LET validatedData == ZodParse(insertStationSchema, FALSE, rq.body)
    IN IF ~validatedData.ok
       THEN Reply(st, 400, [message |-> "Invalid station data",
                            errors |-> validatedData.errors])
       ELSE LET created == createStation(st, validatedData.data)
            IN Reply(created.storage, 201, created.ret)

(***************************************************************************)
(* POST /api/routes/optimize.  The reply of the generative model is a      *)
(* sequence of tokens:                                                     *)
(*   "FO"  the opening fence ```json\n      "FC"  the closing fence \n```  *)
(*   "{" and "}"  braces      "m"  a well-formed member list ("a": 1)      *)
(*   "t"  prose without braces, fences or line breaks                      *)
(***************************************************************************)
Tokens == {"FO", "FC", "{", "}", "m", "t"}

\* textResponse.match(/```json\n([\s\S]*?)\n```/): from the leftmost opening
\* fence that has a closing fence after it, to the first such closing fence
MatchFence(text) ==
    LET starts == {i \in 1..Len(text) :
                      text[i] = "FO" /\ \E j \in (i + 1)..Len(text) : text[j] = "FC"}
    IN IF starts = {} THEN None
       ELSE LET i == CHOOSE x \in starts : \A y \in starts : x <= y
                j == CHOOSE x \in (i + 1)..Len(text) :
                        /\ text[x] = "FC"
                        /\ \A y \in (i + 1)..(x - 1) : text[y] # "FC"
            IN Some(SubSeq(text, i, j))

\* textResponse.match(/{[\s\S]*}/): from the leftmost "{" that has a "}"
\* after it, to the last "}"
MatchBraces(text) ==
    LET starts == {i \in 1..Len(text) :
                      text[i] = "{" /\ \E j \in (i + 1)..Len(text) : text[j] = "}"}
    IN IF starts = {} THEN None
       ELSE LET i == CHOOSE x \in starts : \A y \in starts : x <= y
                j == CHOOSE x \in (i + 1)..Len(text) :
                        /\ text[x] = "}"
                        /\ \A y \in (x + 1)..Len(text) : text[y] # "}"
            IN Some(SubSeq(text, i, j))

\* jsonMatch[0].replace(/```json\n|```/g, ''): an opening fence disappears,
\* of a closing fence the line break stays, which JSON.parse skips
StripFences(match) == SelectSeq(match, LAMBDA tok : tok \notin {"FO", "FC"})

\* JSON.parse succeeds on an object, empty or with a member list
IsJSON(stripped) == stripped \in {<<"{", "}">>, <<"{", "m", "}">>}

\* truthiness of a JSON value
JsTruthy(v) ==
    /\ ~(v.t = "number" /\ v.v = 0)
    /\ ~(v.t = "string" /\ v.v = "")

\* !body[f]: the field is absent or falsy
Falsy(body, f) == f \notin DOMAIN body \/ ~JsTruthy(body[f])

\* !value[f] for a property of a present value
FalsyProp(value, f) ==
    \/ value.t # "object"
    \/ f \notin DOMAIN value.v
    \/ ~JsTruthy(value.v[f])

Thrown(sent, n) == [sent |-> sent, calls |-> n, thrown |-> TRUE]
Sent(sent, n) == [sent |-> sent, calls |-> n, thrown |-> FALSE]

\* the try block of the handler, up to its return or to the exception
OptimizeTryNoReturn(key, rq) ==
    IF ~key
    THEN Sent(<<Response(503, [message |-> "Gemini API key not configured"])>>, 0)
    ELSE IF \/ Falsy(rq.body, "deliveries")
            \/ rq.body.deliveries.t # "array"
            \/ Len(rq.body.deliveries.v) = 0
    THEN Sent(<<Response(400, [message |-> "Deliveries are required"])>>, 0)
    ELSE IF \/ Falsy(rq.body, "startLocation")
            \/ FalsyProp(rq.body.startLocation, "lat")
            \/ FalsyProp(rq.body.startLocation, "lng")
    THEN Sent(<<Response(400, [message |-> "Valid start location is required"])>>, 0)
    ELSE IF ~rq.upstream.ok THEN Thrown(<<>>, 1)
    ELSE LET textResponse == rq.upstream.text
             fenced == MatchFence(textResponse)
             jsonMatch == IF fenced # None THEN fenced
                          ELSE MatchBraces(textResponse)
         IN IF jsonMatch = None
            THEN Thrown(<<Response(500, [message |-> "Failed to parse Gemini API response",
                                         rawResponse |-> textResponse])>>, 1)
            ELSE IF ~IsJSON(StripFences(jsonMatch[1])) THEN Thrown(<<>>, 1)
            ELSE Sent(<<Response(200, [json |-> StripFences(jsonMatch[1])])>>, 1)

OptimizeTryValidateFirst(key, rq) ==
    IF \/ Falsy(rq.body, "deliveries")
       \/ rq.body.deliveries.t # "array"
       \/ Len(rq.body.deliveries.v) = 0
    THEN Sent(<<Response(400, [message |-> "Deliveries are required"])>>, 0)
    ELSE IF \/ Falsy(rq.body, "startLocation")
            \/ FalsyProp(rq.body.startLocation, "lat")
            \/ FalsyProp(rq.body.startLocation, "lng")
    THEN Sent(<<Response(400, [message |-> "Valid start location is required"])>>, 0)
    ELSE IF ~key
    THEN Sent(<<Response(503, [message |-> "Gemini API key not configured"])>>, 0)
    ELSE IF ~rq.upstream.ok THEN Thrown(<<>>, 1)
    ELSE LET textResponse == rq.upstream.text
             fenced == MatchFence(textResponse)
             jsonMatch == IF fenced # None THEN fenced
                          ELSE MatchBraces(textResponse)
         IN IF jsonMatch = None
            THEN Sent(<<Response(500, [message |-> "Failed to parse Gemini API response",
                                       rawResponse |-> textResponse])>>, 1)
            ELSE IF ~IsJSON(StripFences(jsonMatch[1])) THEN Thrown(<<>>, 1)
            ELSE Sent(<<Response(200, [json |-> StripFences(jsonMatch[1])])>>, 1)

OptimizeTry(key, rq) ==
    IF ~key
    THEN Sent(<<Response(503, [message |-> "Gemini API key not configured"])>>, 0)
    ELSE IF \/ Falsy(rq.body, "deliveries")
            \/ rq.body.deliveries.t # "array"
            \/ Len(rq.body.deliveries.v) = 0
    THEN Sent(<<Response(400, [message |-> "Deliveries are required"])>>, 0)
    ELSE IF \/ Falsy(rq.body, "startLocation")
            \/ FalsyProp(rq.body.startLocation, "lat")
            \/ FalsyProp(rq.body.startLocation, "lng")
    THEN Sent(<<Response(400, [message |-> "Valid start location is required"])>>, 0)
    ELSE IF ~rq.upstream.ok THEN Thrown(<<>>, 1)
    ELSE LET textResponse == rq.upstream.text
             fenced == MatchFence(textResponse)
             jsonMatch == IF fenced # None THEN fenced
                          ELSE MatchBraces(textResponse)
         IN IF jsonMatch = None
            THEN Sent(<<Response(500, [message |-> "Failed to parse Gemini API response",
                                       rawResponse |-> textResponse])>>, 1)
            ELSE IF ~IsJSON(StripFences(jsonMatch[1])) THEN Thrown(<<>>, 1)
            ELSE Sent(<<Response(200, [json |-> StripFences(jsonMatch[1])])>>, 1)

\* the catch block: res.status(500).json(...) answers the request, and
\* throws in its turn when a response has been sent already
\* the handler without its catch block: the rejection leaves the handler
PostRoutesOptimizeNoCatch(key, st, rq) ==
    LET try == OptimizeTry(key, rq)
    IN Out(st, try.sent, try.calls, try.thrown)

PostRoutesOptimize(key, st, rq) ==
    LET try == OptimizeTry(key, rq)
    IN IF ~try.thrown THEN Out(st, try.sent, try.calls, FALSE)
       ELSE IF try.sent = <<>>
       THEN Out(st, <<Response(500, [message |-> "Failed to optimize route"])>>,
                try.calls, FALSE)
       ELSE Out(st, try.sent, try.calls, TRUE)

(***************************************************************************)
(* POST /api/auth/login.                                                   *)
(***************************************************************************)
\* const { [f]: _, ...rest } = record
Omit(record, f) == [x \in (DOMAIN record) \ {f} |-> record[x]]

\* a login that does not compare the password
PostAuthLoginAnyPassword(key, st, rq) ==
    IF Falsy(rq.body, "username") \/ Falsy(rq.body, "password")
    THEN Reply(st, 400, [message |-> "Username and password are required"])
    ELSE LET user == getUserByUsername(st, rq.body.username)
         IN IF user = None
            THEN Reply(st, 401, [message |-> "Invalid username or password"])
            ELSE Reply(st, 200, [user |-> Omit(user[1], "password"),
                                 message |-> "Login successful"])

\* a login that responds with the stored user as it is
PostAuthLoginWholeUser(key, st, rq) ==
    IF Falsy(rq.body, "username") \/ Falsy(rq.body, "password")
    THEN Reply(st, 400, [message |-> "Username and password are required"])
    ELSE LET user == getUserByUsername(st, rq.body.username)
         IN IF \/ user = None
               \/ ~(rq.body.password.t = "string" /\ user[1].password = rq.body.password.v)
            THEN Reply(st, 401, [message |-> "Invalid username or password"])
            ELSE Reply(st, 200, [user |-> user[1], message |-> "Login successful"])

PostAuthLogin(key, st, rq) ==
    IF Falsy(rq.body, "username") \/ Falsy(rq.body, "password")
    THEN Reply(st, 400, [message |-> "Username and password are required"])
    ELSE LET user == getUserByUsername(st, rq.body.username)
         IN IF \/ user = None
               \/ ~(rq.body.password.t = "string" /\ user[1].password = rq.body.password.v)
            THEN Reply(st, 401, [message |-> "Invalid username or password"])
            ELSE Reply(st, 200, [user |-> Omit(user[1], "password"),
                                 message |-> "Login successful"])

(***************************************************************************)
(* The router: the handler registered for the method and path.             *)
(***************************************************************************)
Handle(key, st, rq) ==
    CASE rq.method = "POST" /\ rq.path = "/api/auth/login" -> PostAuthLogin(key, st, rq)
      [] rq.method = "GET" /\ rq.path = "/api/inventory" -> GetInventory(key, st, rq)
      [] rq.method = "GET" /\ rq.path = "/api/inventory/:id" -> GetInventoryId(key, st, rq)
      [] rq.method = "POST" /\ rq.path = "/api/inventory" -> PostInventory(key, st, rq)
      [] rq.method = "PUT" /\ rq.path = "/api/inventory/:id" -> PutInventoryId(key, st, rq)
      [] rq.method = "DELETE" /\ rq.path = "/api/inventory/:id" -> DeleteInventoryId(key, st, rq)
      [] rq.method = "GET" /\ rq.path = "/api/deliveries" -> GetDeliveries(key, st, rq)
      [] rq.method = "GET" /\ rq.path = "/api/deliveries/:id" -> GetDeliveriesId(key, st, rq)
      [] rq.method = "POST" /\ rq.path = "/api/deliveries" -> PostDeliveries(key, st, rq)
      [] rq.method = "PUT" /\ rq.path = "/api/deliveries/:id" -> PutDeliveriesId(key, st, rq)
      [] rq.method = "DELETE" /\ rq.path = "/api/deliveries/:id" -> DeleteDeliveriesId(key, st, rq)
      [] rq.method = "GET" /\ rq.path = "/api/routes" -> GetRoutes(key, st, rq)
      [] rq.method = "GET" /\ rq.path = "/api/routes/:id" -> GetRoutesId(key, st, rq)
      [] rq.method = "POST" /\ rq.path = "/api/routes" -> PostRoutes(key, st, rq)
      [] rq.method = "POST" /\ rq.path = "/api/routes/optimize" -> PostRoutesOptimize(key, st, rq)
      [] rq.method = "GET" /\ rq.path = "/api/stations" -> GetStations(key, st, rq)
      [] rq.method = "POST" /\ rq.path = "/api/stations" -> PostStations(key, st, rq)
      [] rq.method = "GET" /\ rq.path = "/api/calendar" -> GetCalendar(key, st, rq)
      [] rq.method = "POST" /\ rq.path = "/api/calendar" -> PostCalendar(key, st, rq)
      [] rq.method = "PUT" /\ rq.path = "/api/calendar/:id" -> PutCalendarId(key, st, rq)
      [] rq.method = "DELETE" /\ rq.path = "/api/calendar/:id" -> DeleteCalendarId(key, st, rq)

(***************************************************************************)
(* The requests the model issues.                                          *)
(***************************************************************************)
LoginBodies ==
    { EmptyRecord,
      [username |-> Str("john.driver")],
      [password |-> Str("password123")],
      [username |-> Str(""), password |-> Str("password123")],
      [username |-> Str("john.driver"), password |-> Str("")],
      [username |-> Str("john.driver"), password |-> Num(0)],
      [username |-> Num(7), password |-> Str("password123")],
      [username |-> Str("jane.doe"), password |-> Str("password123")],
      [username |-> Str("jane.doe"), password |-> Str("letmein")],
      [username |-> Str("john.driver"), password |-> Str("letmein")],
      [username |-> Str("john.driver"), password |-> Num(123)],
      [username |-> Str("john.driver"), password |-> Str("password123")] }

InventoryBodies ==
    { [name |-> Str("Box"), quantity |-> Num(3), userId |-> Num(1)],
      [name |-> Str("Box"), quantity |-> Num(-1), userId |-> Num(2)],
      [name |-> Str("Box"), quantity |-> Str("many"), userId |-> Num(1)],
      [id |-> Num(2), name |-> Str("Box"), quantity |-> Num(3), userId |-> Num(1)],
      [quantity |-> Num(-1)],
      [id |-> Num(2)] }

\* the bodies of the PUTs that are in flight together: a whole item, an
\* invalid one, and partial ones that set the quantity, the name, the id
RaceBodies ==
    { [name |-> Str("Box"), quantity |-> Num(3), userId |-> Num(1)],
      [name |-> Str("Box"), quantity |-> Str("many"), userId |-> Num(1)],
      [quantity |-> Num(-1)],
      [name |-> Str("Crate")],
      [id |-> Num(2)] }

DeliveryBodies ==
    { [destination |-> Str("Depot"), scheduledTime |-> Dat(12)],
      [destination |-> Str("Depot"), scheduledTime |-> Dat(12),
       status |-> Str("delivered")],
      [status |-> Str("scheduled")],
      [destination |-> Num(7)] }

RouteBodies ==
    { [name |-> Str("Morning"), date |-> Dat(12), waypoints |-> Arr(<<1, 2>>)],
      [name |-> Str("Morning"), date |-> Dat(12), waypoints |-> Arr(<<2, 1>>)],
      [name |-> Str("Morning")] }

CalendarBodies ==
    { [title |-> Str("Unload"), startTime |-> Dat(12)],
      [title |-> Str("Unload"), startTime |-> Dat(12),
       relatedDeliveryId |-> Num(9)],
      [relatedDeliveryId |-> Num(1)],
      [title |-> Num(0)] }

Point(lat, lng) == [lat |-> lat, lng |-> lng]

StationBodies ==
    { [name |-> Str("Stop"), coordinates |-> Obj(Point(0, 0))],
      [name |-> Str("Stop"), coordinates |-> Obj(Point(0, 1))],
      [name |-> Str("Stop"), coordinates |-> Obj(Point(1, 0)), distance |-> Num(5)],
      [name |-> Str("Stop"), coordinates |-> Obj(Point(1, 2))],
      [name |-> Str("Stop")] }

StationQueries ==
    { [NoQuery EXCEPT !.lat = Some(lat), !.lng = Some("0"),
                      !.radius = Some(radius)] :
          lat \in {"0", "1"}, radius \in {"0", "120", "250"} }
    \cup { [NoQuery EXCEPT !.lng = Some("0"), !.radius = Some("120")],
           [NoQuery EXCEPT !.lat = Some("0"), !.lng = Some("0"),
                           !.radius = Some("")],
           NoQuery }

DeliveryQueries ==
    { [NoQuery EXCEPT !.status = status] :
          status \in {None, Some("scheduled"), Some("delivered")} }

\* records that differ in the fields the list filters read
FilterDeliveryBodies ==
    { [destination |-> Str("Depot"), scheduledTime |-> Dat(h),
       status |-> Str(status), assignedDriver |-> Num(driver)] :
          h \in {12, 36}, status \in {"scheduled", "delivered"},
          driver \in {1, 2} }
    \cup { [destination |-> Str("Depot"), scheduledTime |-> Dat(12)] }

FilterRouteBodies ==
    { [name |-> Str("Morning"), date |-> Dat(h), waypoints |-> Arr(<<1, 2>>),
       assignedDriver |-> Num(driver)] : h \in {12, 36}, driver \in {1, 2} }
    \cup { [name |-> Str("Morning"), date |-> Dat(12),
            waypoints |-> Arr(<<1, 2>>)] }

FilterCalendarBodies ==
    { [title |-> Str("Unload"), startTime |-> Dat(h),
       assignedDriver |-> Num(2)] : h \in {0, 12, 24, 36} }
    \cup { [title |-> Str("Unload"), startTime |-> Dat(h)] : h \in {12, 36} }

\* query strings of the list routes: each parameter absent, empty, well
\* formed or malformed
FilterDeliveryQueries ==
    { [NoQuery EXCEPT !.status = status, !.driverId = driverId,
                      !.date = date] :
          status \in {None, Some(""), Some("scheduled")},
          driverId \in {None, Some("1"), Some("abc")},
          date \in {None, Some("2024-01-07"), Some("soon")} }

FilterRouteQueries ==
    { [NoQuery EXCEPT !.driverId = driverId, !.date = date] :
          driverId \in {None, Some("1"), Some("abc")},
          date \in {None, Some("2024-01-08"), Some("soon")} }

FilterCalendarQueries ==
    { [NoQuery EXCEPT !.driverId = driverId, !.start = start, !.end = end] :
          driverId \in {None, Some("2")},
          start \in {None, Some("2024-01-07")},
          end \in {None, Some("2024-01-08"), Some("soon")} }

\* events before, inside, on the last day of and after the week of DayNames
WeekCalendarBodies ==
    { [title |-> Str("Unload"), startTime |-> Dat(h)] :
          h \in {-12, 0, 12, 144, 156, 168} }

\* the days the calendar page can show a week around
CurrentDates == {0, 60, 167}

OptimizeBodies ==
    { [deliveries |-> Arr(<<1, 2>>),
       startLocation |-> Obj([lat |-> Num(47), lng |-> Num(8)])],
      [deliveries |-> Arr(<<>>),
       startLocation |-> Obj([lat |-> Num(47), lng |-> Num(8)])],
      [deliveries |-> Str("all"),
       startLocation |-> Obj([lat |-> Num(47), lng |-> Num(8)])],
      [deliveries |-> Arr(<<1, 2>>), startLocation |-> Obj([lat |-> Num(47)])],
      [deliveries |-> Arr(<<1, 2>>)],
      EmptyRecord }

\* start locations on and off the equator and the prime meridian, and one
\* whose latitude is not a number
StartLocationBodies ==
    { [deliveries |-> Arr(<<1, 2>>),
       startLocation |-> Obj([lat |-> lat, lng |-> lng])] :
          lat \in {Num(0), Num(47), Str("north")}, lng \in {Num(0), Num(8)} }

RECURSIVE SeqsUpTo(_, _)
SeqsUpTo(S, n) ==
    IF n = 0 THEN {<<>>}
    ELSE LET shorter == SeqsUpTo(S, n - 1)
         IN shorter \cup {Append(t, x) : t \in shorter, x \in S}

Reply200(text) == [ok |-> TRUE, text |-> text, message |-> ""]
UpstreamError(message) == [ok |-> FALSE, text |-> <<>>, message |-> message]

\* every reply of the generative model, up to MaxTextLen tokens, and a failure
Upstreams ==
    {Reply200(text) : text \in SeqsUpTo(Tokens, MaxTextLen)}
    \cup {UpstreamError("quota exceeded")}

\* the ids requests name: created, deleted or not yet created
Ids == 1..MaxCreates

\* records created so far
Created(st) ==
    (st.nextInventoryItemId - 1) + (st.nextDeliveryId - 1)
    + (st.nextRouteId - 1) + (st.nextStationId - 1)
    + (st.nextCalendarEventId - 1)

(***************************************************************************)
(* Init: the server has started; the API key is configured or not.         *)
(***************************************************************************)
\* no request yet
NoRequest == Request("", "", 0, NoQuery, EmptyRecord, 1, NoUpstream)

\* the requests that can be in flight together
Slots == {1, 2}

\* a handler that has not been entered.  rq is its request, item the
\* validated body, existingItem what updateInventoryItem read, updatedItem
\* what it returned, turn the rank of its Map.set among those of the run
\* (0: none), sent the responses
Idle ==
    [item |-> EmptyRecord, updatedItem |-> None, sent |-> <<>>, rq |-> NoRequest,
     pc |-> "idle", existingItem |-> None, turn |-> 0]

\* the rank of the next Map.set
NextTurn(fl) == Cardinality({s \in Slots : fl[s].turn > 0}) + 1

(***************************************************************************)
(* The browser.  AuthProvider (client/src/context/AuthContext.tsx) holds   *)
(* user, isLoading and isAuthenticated; the router holds the location.     *)
(* Two Routers exist: that of client/src/App.tsx, and that of              *)
(* unnamed/part_001 with its ProtectedRoute.                               *)
(***************************************************************************)
Routers == {"App.tsx", "part_001"}

\* the state of the useState calls, at the location "/", while the
\* fetch of /api/me that the mount effect starts is under way
Mounted(router) ==
    [ user |-> None, router |-> router, isAuthenticated |-> FALSE,
      isLoading |-> TRUE, location |-> "/", fetchingMe |-> TRUE ]

\* the inventory page before its first fetch: no list, no update under
\* way, no click made on any item
Unopened ==
    [ inventoryItems |-> <<>>, updates |-> <<>>, stale |-> FALSE,
      raised |-> [id \in Ids |-> 0], lowered |-> [id \in Ids |-> 0],
      clicks |-> 0 ]

ProtectedPaths ==
    {"/", "/inventory", "/calendar", "/routes", "/stations", "/settings"}

Locations == ProtectedPaths \cup {"/login", "/missing"}

\* the component of each <Route>
PageOfPath(path) ==
    CASE path = "/" -> "Dashboard"
      [] path = "/inventory" -> "Inventory"
      [] path = "/calendar" -> "Calendar"
      [] path = "/routes" -> "Routes"
      [] path = "/stations" -> "Stations"
      [] path = "/settings" -> "Settings"
      [] path = "/login" -> "Login"
      [] OTHER -> "NotFound"

\* what ProtectedRoute renders for the component at the location
ProtectedRoute(a) ==
    IF ~a.isAuthenticated THEN "null" ELSE PageOfPath(a.location)

\* what Router renders
Router(a) ==
    IF a.router = "part_001"
    THEN IF a.isAuthenticated /\ a.location = "/login" THEN "Redirect"
         ELSE IF a.location \in ProtectedPaths THEN ProtectedRoute(a)
         ELSE PageOfPath(a.location)
    ELSE IF a.isLoading THEN "Loading"
         ELSE IF a.location = "/" THEN "Dashboard"
         ELSE "NotFound"

Started ==
    /\ storage = newMemStorage
    /\ genAI \in BOOLEAN
    /\ running = TRUE
    /\ req = NoRequest
    /\ res = <<>>
    /\ calls = 0
    /\ inflight = [s \in Slots |-> Idle]
    /\ modal = Unopened

Init ==
    /\ Started
    /\ modelReply = Reply200(<<"FO", "{", "m", "}", "FC">>)
    /\ awaitsRead = FALSE
    /\ auth = Mounted("App.tsx")

\* the browser loads either Router
InitAuth ==
    /\ Started
    /\ modelReply = Reply200(<<"FO", "{", "m", "}", "FC">>)
    /\ awaitsRead = FALSE
    /\ auth \in {Mounted(router) : router \in Routers}

InitOptimize ==
    /\ Started
    /\ modelReply \in Upstreams
    /\ awaitsRead = FALSE
    /\ auth = Mounted("App.tsx")

\* either declaration of updateInventoryItem
InitRace ==
    /\ Started
    /\ modelReply = Reply200(<<"FO", "{", "m", "}", "FC">>)
    /\ awaitsRead \in BOOLEAN
    /\ auth = Mounted("App.tsx")

\* the server, while its process is up, handles rq to completion
Serve(rq) ==
    /\ running
    /\ LET out == Handle(genAI, storage, rq)
       IN /\ storage' = out.storage
          /\ res' = out.sent
          /\ calls' = out.calls
          /\ running' = ~out.escaped
    /\ req' = rq
    /\ UNCHANGED <<genAI, modelReply, awaitsRead, inflight, auth, modal>>

\* the server handles rq to completion, for a caller that acts on the answer
Exchange(rq) ==
    /\ running
    /\ LET out == Handle(genAI, storage, rq)
       IN /\ storage' = out.storage
          /\ res' = out.sent
          /\ calls' = out.calls
          /\ running' = ~out.escaped
    /\ req' = rq
    /\ UNCHANGED <<genAI, modelReply, awaitsRead, inflight>>

\* a step of the browser alone: no request is handled
NoExchange ==
    /\ req' = NoRequest
    /\ res' = <<>>
    /\ calls' = 0
    /\ UNCHANGED <<storage, genAI, running, modelReply, awaitsRead, inflight>>

\* the requests of each endpoint
Get(path) == {Request("GET", path, 0, NoQuery, EmptyRecord, 1, NoUpstream)}
GetQuery(path, queries) ==
    {Request("GET", path, 0, query, EmptyRecord, 1, NoUpstream) : query \in queries}
GetId(path) ==
    {Request("GET", path, id, NoQuery, EmptyRecord, 1, NoUpstream) : id \in Ids}
Post(path, bodies) ==
    {Request("POST", path, 0, NoQuery, body, 1, NoUpstream) : body \in bodies}
PutId(path, bodies) ==
    {Request("PUT", path, id, NoQuery, body, 1, NoUpstream) :
        id \in Ids, body \in bodies}
DeleteId(path) ==
    {Request("DELETE", path, id, NoQuery, EmptyRecord, 1, NoUpstream) : id \in Ids}

PostAuthLoginStep == \E rq \in Post("/api/auth/login", LoginBodies) : Serve(rq)

GetInventoryStep == \E rq \in Get("/api/inventory") : Serve(rq)

GetInventoryIdStep == \E rq \in GetId("/api/inventory/:id") : Serve(rq)

PostInventoryStep ==
    /\ Created(storage) < MaxCreates
    /\ \E rq \in Post("/api/inventory", InventoryBodies) : Serve(rq)

PutInventoryIdStep ==
    \E rq \in PutId("/api/inventory/:id", InventoryBodies) : Serve(rq)

DeleteInventoryIdStep ==
    \E rq \in DeleteId("/api/inventory/:id") : Serve(rq)

GetDeliveriesStep ==
    \E rq \in GetQuery("/api/deliveries", DeliveryQueries) : Serve(rq)

GetDeliveriesIdStep == \E rq \in GetId("/api/deliveries/:id") : Serve(rq)

PostDeliveriesStep ==
    /\ Created(storage) < MaxCreates
    /\ \E rq \in Post("/api/deliveries", DeliveryBodies) : Serve(rq)

PutDeliveriesIdStep ==
    \E rq \in PutId("/api/deliveries/:id", DeliveryBodies) : Serve(rq)

DeleteDeliveriesIdStep ==
    \E rq \in DeleteId("/api/deliveries/:id") : Serve(rq)

GetRoutesStep == \E rq \in Get("/api/routes") : Serve(rq)

GetRoutesIdStep == \E rq \in GetId("/api/routes/:id") : Serve(rq)

PostRoutesStep ==
    /\ Created(storage) < MaxCreates
    /\ \E rq \in Post("/api/routes", RouteBodies) : Serve(rq)

\* the model answers this request with modelReply, if the handler calls it
PostRoutesOptimizeStep ==
    \E body \in OptimizeBodies :
       Serve(Request("POST", "/api/routes/optimize", 0, NoQuery, body, 1, modelReply))

PostRoutesOptimizeStartStep ==
    \E body \in StartLocationBodies :
       Serve(Request("POST", "/api/routes/optimize", 0, NoQuery, body, 1, modelReply))

GetStationsStep ==
    \E rq \in GetQuery("/api/stations", StationQueries) : Serve(rq)

PostStationsStep ==
    /\ Created(storage) < MaxCreates
    /\ \E rq \in Post("/api/stations", StationBodies) : Serve(rq)

GetCalendarStep == \E rq \in Get("/api/calendar") : Serve(rq)

PostCalendarStep ==
    /\ Created(storage) < MaxCreates
    /\ \E rq \in Post("/api/calendar", CalendarBodies) : Serve(rq)

PutCalendarIdStep ==
    \E rq \in PutId("/api/calendar/:id", CalendarBodies) : Serve(rq)

DeleteCalendarIdStep == \E rq \in DeleteId("/api/calendar/:id") : Serve(rq)

(***************************************************************************)
(* client/src/pages/Calendar.tsx: the week view.  date-fns startOfWeek and *)
(* endOfWeek give the first instant of the Sunday and the last instant of  *)
(* the Saturday around a date; format(d, 'yyyy-MM-dd') names the day of d. *)
(***************************************************************************)
startOfWeek(date) == (date \div 168) * 168
endOfWeek(date) == startOfWeek(date) + 167
format(date) == DayNames[(date \div 24) + 1]

\* the request of the week view's useQuery for the week around currentDate
WeekQuery(currentDate) ==
    LET weekStart == startOfWeek(currentDate)
        weekEnd == endOfWeek(currentDate)
    IN [NoQuery EXCEPT !.start = Some(format(weekStart)),
                       !.end = Some(format(weekEnd))]

PostWeekCalendarStep ==
    /\ Created(storage) < MaxCreates
    /\ \E rq \in Post("/api/calendar", WeekCalendarBodies) : Serve(rq)

CalendarWeekFetchStep ==
    \E rq \in GetQuery("/api/calendar", {WeekQuery(d) : d \in CurrentDates}) :
       Serve(rq)

(***************************************************************************)
(* AuthProvider and the Routers.                                           *)
(***************************************************************************)
\* what the login form submits
Credentials ==
    { [username |-> Str("john.driver"), password |-> Str("password123")],
      [username |-> Str("john.driver"), password |-> Str("letmein")],
      [username |-> Str("jane.doe"), password |-> Str("password123")] }

\* routes.ts registers no /api/me: the fetch of the mount effect gets a
\* user, a response that is not ok, or a body that is not JSON
MeResponses == {"user", "not ok", "not JSON"}

\* the mount effect's fetchDemoUser settles
FetchDemoUserSettles ==
    /\ auth.fetchingMe
    /\ \E response \in MeResponses :
          auth' = IF response = "user"
                  THEN [auth EXCEPT !.user = Some(Omit(storage.users[1], "password")),
                                    !.isAuthenticated = TRUE,
                                    !.isLoading = FALSE,
                                    !.fetchingMe = FALSE]
                  ELSE [auth EXCEPT !.isLoading = FALSE, !.fetchingMe = FALSE]
    /\ NoExchange
    /\ UNCHANGED modal

\* the Login page submits: login(username, password), and on success
\* setLocation("/").  apiRequest throws when the response is not ok.
Login ==
    /\ Router(auth) = "Login"
    /\ running
    /\ \E rq \in Post("/api/auth/login", Credentials) :
          LET out == Handle(genAI, storage, rq)
              ok == out.sent[1].status \in 200..299
          IN /\ storage' = out.storage
             /\ res' = out.sent
             /\ calls' = out.calls
             /\ running' = ~out.escaped
             /\ req' = rq
             /\ auth' = IF ok
                        THEN [auth EXCEPT !.user = Some(out.sent[1].body.user),
                                          !.isAuthenticated = TRUE,
                                          !.isLoading = FALSE,
                                          !.location = "/"]
                        ELSE [auth EXCEPT !.isLoading = FALSE]
    /\ UNCHANGED <<genAI, modelReply, awaitsRead, inflight, modal>>

ProtectedPages ==
    {"Dashboard", "Inventory", "Calendar", "Routes", "Stations", "Settings"}

\* the sidebar of a page calls logout()
Logout ==
    /\ Router(auth) \in ProtectedPages
    /\ auth' = [auth EXCEPT !.user = None, !.isAuthenticated = FALSE]
    /\ NoExchange
    /\ UNCHANGED modal

\* the user follows a link or types an address
Navigate ==
    /\ \E path \in Locations \ {auth.location} :
          auth' = [auth EXCEPT !.location = path]
    /\ NoExchange
    /\ UNCHANGED modal

\* the effect of ProtectedRoute, after it rendered without authentication
ProtectedRouteEffect ==
    /\ auth.router = "part_001"
    /\ auth.location \in ProtectedPaths
    /\ ~auth.isAuthenticated
    /\ auth' = [auth EXCEPT !.location = "/login"]
    /\ NoExchange
    /\ UNCHANGED modal

\* <Redirect to="/" />
RedirectEffect ==
    /\ Router(auth) = "Redirect"
    /\ auth' = [auth EXCEPT !.location = "/"]
    /\ NoExchange
    /\ UNCHANGED modal

(***************************************************************************)
(* The inventory page (unnamed/part_005): the list of useQuery, the        *)
(* quantity buttons of each row and updateQuantityMutation.                *)
(***************************************************************************)
ModalItemBodies ==
    { [name |-> Str(name), quantity |-> Num(1), userId |-> Num(1)] :
          name \in {"Box", "Crate"} }

PostModalItemStep ==
    /\ Created(storage) < MaxCreates
    /\ \E rq \in Post("/api/inventory", ModalItemBodies) : Serve(rq)

\* the queryFn of the list: on mount, on focus and after an invalidation
FetchInventory ==
    /\ \E rq \in Get("/api/inventory") :
          /\ Exchange(rq)
          /\ LET response == Handle(genAI, storage, rq).sent[1]
             IN modal' = IF response.status \in 200..299
                         THEN [modal EXCEPT !.inventoryItems = response.body,
                                            !.stale = FALSE]
                         ELSE modal
    /\ UNCHANGED auth

\* updateQuantityMutation.mutate({ id, quantity }): the request leaves
Mutate(item, quantity) ==
    [modal EXCEPT !.updates = Append(@, [id |-> item.id, quantity |-> quantity]),
                  !.clicks = @ + 1]

\* a click on the plus button of a row of the list
HandleIncreaseQuantity ==
    /\ modal.clicks < MaxClicks
    /\ \E k \in DOMAIN modal.inventoryItems :
          LET item == modal.inventoryItems[k]
          IN modal' = [Mutate(item, item.quantity + 1) EXCEPT
                          !.raised[item.id] = @ + 1]
    /\ NoExchange
    /\ UNCHANGED auth

\* a click on the minus button of a row of the list
HandleDecreaseQuantity ==
    /\ modal.clicks < MaxClicks
    /\ \E k \in DOMAIN modal.inventoryItems :
          LET item == modal.inventoryItems[k]
          IN modal' = IF item.quantity > 0
                      THEN [Mutate(item, item.quantity - 1) EXCEPT
                               !.lowered[item.id] = @ + 1]
                      ELSE [modal EXCEPT !.clicks = @ + 1]
    /\ NoExchange
    /\ UNCHANGED auth

\* the oldest PUT of updateQuantityMutation is handled; onSuccess
\* invalidates the list
UpdateQuantitySettles ==
    /\ modal.updates # <<>>
    /\ LET variables == Head(modal.updates)
           rq == Request("PUT", "/api/inventory/:id", variables.id, NoQuery,
                         [quantity |-> Num(variables.quantity)], 1, NoUpstream)
           response == Handle(genAI, storage, rq).sent[1]
       IN /\ Exchange(rq)
          /\ modal' = [modal EXCEPT
                          !.updates = Tail(@),
                          !.stale = IF response.status \in 200..299 THEN TRUE ELSE @]
    /\ UNCHANGED auth

\* the list routes asked with query strings, over records that differ in
\* what the filters read
PostFilterDeliveriesStep ==
    /\ Created(storage) < MaxCreates
    /\ \E rq \in Post("/api/deliveries", FilterDeliveryBodies) : Serve(rq)

PostFilterRoutesStep ==
    /\ Created(storage) < MaxCreates
    /\ \E rq \in Post("/api/routes", FilterRouteBodies) : Serve(rq)

PostFilterCalendarStep ==
    /\ Created(storage) < MaxCreates
    /\ \E rq \in Post("/api/calendar", FilterCalendarBodies) : Serve(rq)

GetDeliveriesFilteredStep ==
    \E rq \in GetQuery("/api/deliveries", FilterDeliveryQueries) : Serve(rq)

GetRoutesFilteredStep ==
    \E rq \in GetQuery("/api/routes", FilterRouteQueries) : Serve(rq)

GetCalendarFilteredStep ==
    \E rq \in GetQuery("/api/calendar", FilterCalendarQueries) : Serve(rq)

\* PUT /api/inventory/:id is entered and runs to its first await.  A body
\* that fails validation is answered in the catch block at once.  The
\* updateInventoryItem of storage.ts:139-146 reads and writes the map before
\* the handler's await suspends it; that of storage.ts:715-722 reads the map
\* and is suspended at its own await.
PutInventoryIdEnters(s, rq) ==
    /\ running
    /\ inflight[s].pc = "idle"
    /\ LET validatedData == ZodParse(insertInventoryItemSchema, TRUE, rq.body)
           entered == [Idle EXCEPT !.rq = rq, !.item = validatedData.data]
       IN IF ~validatedData.ok
          THEN LET sent == <<Response(400, [message |-> "Invalid inventory item data",
                                           errors |-> validatedData.errors])>>
               IN /\ inflight' = [inflight EXCEPT
                                     ![s] = [entered EXCEPT !.pc = "done", !.sent = sent]]
                  /\ req' = rq /\ res' = sent /\ calls' = 0
                  /\ storage' = storage
          ELSE IF awaitsRead
          THEN /\ inflight' = [inflight EXCEPT
                                  ![s] = [entered EXCEPT
                                             !.pc = "read",
                                             !.existingItem = getInventoryItem(storage, rq.id)]]
               /\ UNCHANGED <<storage, req, res, calls>>
          ELSE LET updated == updateInventoryItem(storage, rq.id, validatedData.data)
               IN /\ storage' = updated.storage
                  /\ inflight' = [inflight EXCEPT
                                     ![s] = [entered EXCEPT
                                                !.pc = "updated",
                                                !.existingItem = getInventoryItem(storage, rq.id),
                                                !.updatedItem = updated.ret,
                                                !.turn = IF updated.ret = None THEN 0
                                                         ELSE NextTurn(inflight)]]
                  /\ UNCHANGED <<req, res, calls>>
    /\ UNCHANGED <<genAI, running, modelReply, awaitsRead, auth, modal>>

\* updateInventoryItem of storage.ts:715-722 resumes after its await, with
\* the existingItem it read before
UpdateInventoryItemResumes(s) ==
    /\ running
    /\ inflight[s].pc = "read"
    /\ LET fl == inflight[s]
       IN IF fl.existingItem = None
          THEN /\ inflight' = [inflight EXCEPT ![s].pc = "updated"]
               /\ storage' = storage
          ELSE LET updatedItem == Spread(fl.existingItem[1], fl.item)
               IN /\ storage' = [storage EXCEPT
                                    !.inventoryItems = MapSet(@, fl.rq.id, updatedItem)]
                  /\ inflight' = [inflight EXCEPT
                                     ![s].pc = "updated",
                                     ![s].updatedItem = Some(updatedItem),
                                     ![s].turn = NextTurn(inflight)]
    /\ UNCHANGED <<genAI, running, req, res, calls, modelReply, awaitsRead,
                   auth, modal>>

\* the handler resumes after await storage.updateInventoryItem and responds
PutInventoryIdResponds(s) ==
    /\ running
    /\ inflight[s].pc = "updated"
    /\ LET fl == inflight[s]
           sent == IF fl.updatedItem = None
                   THEN <<Response(404, [message |-> "Inventory item not found"])>>
                   ELSE <<Response(200, fl.updatedItem[1])>>
       IN /\ inflight' = [inflight EXCEPT ![s].pc = "done", ![s].sent = sent]
          /\ req' = fl.rq /\ res' = sent /\ calls' = 0
    /\ UNCHANGED <<storage, genAI, running, modelReply, awaitsRead, auth, modal>>

PutInventoryIdEntersStep ==
    \E rq \in PutId("/api/inventory/:id", RaceBodies) :
       \E s \in Slots : PutInventoryIdEnters(s, rq)

UpdateInventoryItemResumesStep == \E s \in Slots : UpdateInventoryItemResumes(s)

PutInventoryIdRespondsStep == \E s \in Slots : PutInventoryIdResponds(s)

NextInventory ==
    \/ GetInventoryStep \/ GetInventoryIdStep \/ PostInventoryStep
    \/ PutInventoryIdStep \/ DeleteInventoryIdStep

NextDeliveries ==
    \/ GetDeliveriesStep \/ GetDeliveriesIdStep \/ PostDeliveriesStep
    \/ PutDeliveriesIdStep \/ DeleteDeliveriesIdStep

NextRoutes == GetRoutesStep \/ GetRoutesIdStep \/ PostRoutesStep

NextCalendar ==
    \/ GetCalendarStep \/ PostCalendarStep \/ PutCalendarIdStep
    \/ DeleteCalendarIdStep

NextStations == GetStationsStep \/ PostStationsStep

NextOptimize == PostRoutesOptimizeStep \/ GetRoutesStep

\* the optimizer asked from every start location
NextOptimizeStart == PostRoutesOptimizeStartStep \/ PostRoutesOptimizeStep

Next ==
    \/ NextInventory \/ NextDeliveries \/ NextRoutes \/ NextCalendar
    \/ NextStations \/ PostRoutesOptimizeStep

\* creating and deleting, for the entities that have a DELETE route
NextDelete ==
    \/ PostInventoryStep \/ DeleteInventoryIdStep
    \/ PostDeliveriesStep \/ DeleteDeliveriesIdStep
    \/ PostCalendarStep \/ DeleteCalendarIdStep

\* the requests that write: every POST, PUT and DELETE on an entity
NextWrites ==
    \/ PostInventoryStep \/ PutInventoryIdStep \/ DeleteInventoryIdStep
    \/ PostDeliveriesStep \/ PutDeliveriesIdStep \/ DeleteDeliveriesIdStep
    \/ PostRoutesStep \/ PostStationsStep
    \/ PostCalendarStep \/ PutCalendarIdStep \/ DeleteCalendarIdStep

Spec == Init /\ [][Next]_vars
SpecWrites == Init /\ [][NextWrites]_vars

\* items are created, and up to two PUT /api/inventory/:id are in flight
NextRace ==
    \/ PostInventoryStep
    \/ PutInventoryIdEntersStep
    \/ UpdateInventoryItemResumesStep
    \/ PutInventoryIdRespondsStep

SpecRace == InitRace /\ [][NextRace]_vars

\* the same, and items are deleted while a PUT is in flight
NextRaceDelete == NextRace \/ DeleteInventoryIdStep

SpecRaceDelete == InitRace /\ [][NextRaceDelete]_vars

\* logins, while inventory items come and go
NextLogin == PostAuthLoginStep \/ PostInventoryStep \/ DeleteInventoryIdStep

SpecLogin == Init /\ [][NextLogin]_vars

\* the week view of the calendar page, while events come and go
NextCalendarWeek ==
    \/ PostWeekCalendarStep
    \/ DeleteCalendarIdStep
    \/ CalendarWeekFetchStep

SpecCalendarWeek == Init /\ [][NextCalendarWeek]_vars

\* the browser signs in and out and moves between the pages
NextAuth ==
    \/ FetchDemoUserSettles
    \/ Login
    \/ Logout
    \/ Navigate
    \/ ProtectedRouteEffect
    \/ RedirectEffect

SpecAuth == InitAuth /\ [][NextAuth]_vars

\* the inventory page: items are added, the list is fetched, the quantity
\* buttons are clicked, the updates are handled
NextModal ==
    \/ PostModalItemStep
    \/ FetchInventory
    \/ HandleIncreaseQuantity
    \/ HandleDecreaseQuantity
    \/ UpdateQuantitySettles

\* a request that was sent is handled, and an invalidated list is fetched
SpecModal ==
    /\ Init
    /\ [][NextModal]_vars
    /\ WF_vars(UpdateQuantitySettles)
    /\ WF_vars(FetchInventory)

\* the list routes and their filters
NextFilters ==
    \/ PostFilterDeliveriesStep
    \/ PostFilterRoutesStep
    \/ PostFilterCalendarStep
    \/ GetDeliveriesFilteredStep
    \/ GetRoutesFilteredStep
    \/ GetCalendarFilteredStep

SpecFilters == Init /\ [][NextFilters]_vars
SpecDelete == Init /\ [][NextDelete]_vars
SpecInventory == Init /\ [][NextInventory]_vars
SpecStations == Init /\ [][NextStations]_vars
SpecOptimize == InitOptimize /\ [][NextOptimize]_vars
SpecOptimizeStart == InitOptimize /\ [][NextOptimizeStart]_vars

(***************************************************************************)
(* Properties.  In a step, req' is the request being handled and res' the  *)
(* responses it gets; storage is the store before and storage' after.      *)
(***************************************************************************)
Handles(method, path) == req'.method = method /\ req'.path = path
Handled(method, path) == req.method = method /\ req.path = path

\* the one response of the step has this status
Answers(status) == Len(res') = 1 /\ res'[1].status = status
Answered(status) == Len(res) = 1 /\ res[1].status = status

\* C1: POST /api/inventory with a negative quantity is answered with 400
\* and stores nothing
C1_NegativeQuantityRejected ==
    [][ ( /\ Handles("POST", "/api/inventory")
          /\ "quantity" \in DOMAIN req'.body
          /\ req'.body.quantity.t = "number"
          /\ req'.body.quantity.v < 0 )
        => (Answers(400) /\ storage' = storage) ]_vars

\* C2: a PUT or DELETE on /api/inventory/:id by a user who is not the
\* owner of the item is answered with 403 and leaves the store unchanged
C2_ForeignItemForbidden ==
    [][ ( /\ Handles("PUT", "/api/inventory/:id") \/ Handles("DELETE", "/api/inventory/:id")
          /\ req'.id \in DOMAIN storage.inventoryItems
          /\ storage.inventoryItems[req'.id].userId # req'.caller )
        => (Answers(403) /\ storage' = storage) ]_vars

\* the map of the store behind a path
EntityOfPath(path) ==
    CASE path \in {"/api/inventory", "/api/inventory/:id"} -> "inventoryItems"
      [] path \in {"/api/deliveries", "/api/deliveries/:id"} -> "deliveries"
      [] path \in {"/api/routes", "/api/routes/:id"} -> "routes"
      [] path \in {"/api/stations"} -> "stations"
      [] path \in {"/api/calendar", "/api/calendar/:id"} -> "calendarEvents"

MapOfPath(st, path) == st[EntityOfPath(path)]

DeletePaths == {"/api/inventory/:id", "/api/deliveries/:id", "/api/calendar/:id"}

\* C3: a DELETE of an id that is not in the store (never created or already
\* deleted) is answered with 404 and leaves every map and counter unchanged,
\* for deliveries, inventory items and calendar events
C3_DeleteAbsentIs404 ==
    [][ ( /\ req'.method = "DELETE"
          /\ req'.path \in DeletePaths
          /\ req'.id \notin DOMAIN MapOfPath(storage, req'.path) )
        => (Answers(404) /\ storage' = storage) ]_vars

\* a delivery that was created and deleted is deleted again: 404, while
\* another record is in the store
C3_Witness ==
    /\ Handled("DELETE", "/api/deliveries/:id")
    /\ req.id < storage.nextDeliveryId
    /\ req.id \notin DOMAIN storage.deliveries
    /\ Answered(404)
    /\ Created(storage) = MaxCreates

\* GET /api/stations with lat, lng and radius all present
NearbyAsked ==
    /\ Handled("GET", "/api/stations")
    /\ Truthy(req.query.lat) /\ Truthy(req.query.lng) /\ Truthy(req.query.radius)

\* metres from the query point of req to a station
DistanceFromQuery(station) ==
    calculateDistance(parseFloat(req.query.lat[1]), parseFloat(req.query.lng[1]),
                      station.coordinates.lat, station.coordinates.lng)

\* C4: GET /api/stations with lat, lng and radius r returns exactly the
\* stored stations whose great-circle distance from (lat, lng) is at most r
\* kilometres, each once, and in ascending order of distance
C4_NearbyExactAndAscending ==
    NearbyAsked =>
        /\ Answered(200)
        /\ LET result == res[1].body
               r == parseFloat(req.query.radius[1]) * 1000
           IN /\ \A k \in 1..Len(result) :
                    /\ result[k].id \in DOMAIN storage.stations
                    /\ result[k].name = storage.stations[result[k].id].name
                    /\ result[k].coordinates = storage.stations[result[k].id].coordinates
                    /\ result[k].distance = DistanceFromQuery(storage.stations[result[k].id])
                    /\ result[k].distance <= r
              /\ \A i \in DOMAIN storage.stations :
                    DistanceFromQuery(storage.stations[i]) <= r
                        => \E k \in 1..Len(result) : result[k].id = i
              /\ \A k, l \in 1..Len(result) : result[k].id = result[l].id => k = l
              /\ \A k \in 1..(Len(result) - 1) :
                    result[k].distance <= result[k + 1].distance

\* both stations are within the radius and the one created second is the
\* nearer: the result lists it first
C4_Witness ==
    /\ NearbyAsked
    /\ Answered(200)
    /\ Len(res[1].body) = 2
    /\ res[1].body[1].id = 2 /\ res[1].body[2].id = 1
    /\ res[1].body[1].distance < res[1].body[2].distance

OptimizePath == "/api/routes/optimize"

\* the extraction of lines 321-331 fails on the text: no fragment matches,
\* or the fragment is not JSON
NoFragment(text) == MatchFence(text) = None /\ MatchBraces(text) = None

Fragment(text) ==
    IF MatchFence(text) # None THEN MatchFence(text)[1] ELSE MatchBraces(text)[1]

Unparseable(text) == NoFragment(text) \/ ~IsJSON(StripFences(Fragment(text)))

\* the step calls the model, and the model replies with a text
ModelReplies == calls' = 1 /\ req'.upstream.ok

\* C5: whatever text the model replies with, POST /api/routes/optimize sends
\* exactly one response; when the text cannot be parsed the response has an
\* error status; and the server goes on serving
C5_OneResponseServerSurvives ==
    [][ Handles("POST", OptimizePath)
        => /\ Len(res') = 1
           /\ running'
           /\ (ModelReplies /\ Unparseable(req'.upstream.text))
                  => res'[1].status >= 400 ]_vars

\* brace-delimited text that is not JSON: one 500, the server is up
C5_Witness ==
    /\ Handled("POST", OptimizePath)
    /\ calls = 1 /\ req.upstream.ok
    /\ ~NoFragment(req.upstream.text)
    /\ MatchFence(req.upstream.text) = None
    /\ Unparseable(req.upstream.text)
    /\ Answered(500)
    /\ running

\* C6: whenever the text of the model cannot be turned into JSON (no
\* fragment found, or the fragment fails to parse), the error response
\* carries the raw text
C6_RawTextInEveryParseError ==
    [][ ( /\ Handles("POST", OptimizePath)
          /\ ModelReplies
          /\ Unparseable(req'.upstream.text) )
        => /\ Len(res') = 1
           /\ "rawResponse" \in DOMAIN res'[1].body
           /\ res'[1].body.rawResponse = req'.upstream.text ]_vars

\* every request to an endpoint other than the optimizer
OtherRequest(rq) == ~(rq.method = "POST" /\ rq.path = OptimizePath)

\* C7: without an API key POST /api/routes/optimize answers 503 whatever the
\* body, without calling the model and without touching the store; every
\* other request is handled exactly as it is with a key
C7_NoKeyDegradesGracefully ==
    [][ /\ (Handles("POST", OptimizePath) /\ ~genAI)
            => /\ Answers(503)
               /\ calls' = 0
               /\ storage' = storage
               /\ running'
        /\ OtherRequest(req')
            => Handle(FALSE, storage, req') = Handle(TRUE, storage, req') ]_vars

\* no key, records in the store, a body without deliveries: 503, no call
C7_Witness ==
    /\ ~genAI
    /\ Handled("POST", OptimizePath)
    /\ Falsy(req.body, "deliveries")
    /\ Answered(503)
    /\ calls = 0
    /\ Created(storage) > 0

\* C8: when the call of the model fails, the error response reports the
\* message of the upstream
C8_UpstreamMessageReported ==
    [][ ( /\ Handles("POST", OptimizePath)
          /\ calls' = 1
          /\ ~req'.upstream.ok )
        => /\ Len(res') = 1
           /\ res'[1].status >= 400
           /\ \E f \in DOMAIN res'[1].body :
                 res'[1].body[f] = req'.upstream.message ]_vars

\* the fields of a JSON body as plain values
Untagged(body) == [f \in DOMAIN body |-> body[f].v]

Records(m) == {m[i] : i \in DOMAIN m}
Elements(list) == {list[k] : k \in 1..Len(list)}

CollectionPaths ==
    {"/api/inventory", "/api/deliveries", "/api/routes", "/api/stations",
     "/api/calendar"}
ItemPaths ==
    {"/api/inventory/:id", "/api/deliveries/:id", "/api/routes/:id",
     "/api/calendar/:id"}

\* a POST answered with 201 stores, and returns, the submitted fields and
\* the id the server assigns, under that id, and nothing else
PostStoresSubmitted ==
    (req'.method = "POST" /\ req'.path \in CollectionPaths /\ Answers(201)) =>
        LET i == res'[1].body.id
        IN /\ i \notin DOMAIN MapOfPath(storage, req'.path)
           /\ i \in DOMAIN MapOfPath(storage', req'.path)
           /\ MapOfPath(storage', req'.path)[i] = res'[1].body
           /\ res'[1].body = Spread(Untagged(req'.body), [id |-> i])

\* a GET by id of a record in the store returns the record as stored
GetIdReturnsStored ==
    ( /\ req'.method = "GET" /\ req'.path \in ItemPaths
      /\ req'.id \in DOMAIN MapOfPath(storage, req'.path) ) =>
        /\ Answers(200)
        /\ res'[1].body = MapOfPath(storage, req'.path)[req'.id]

\* the list has lat, lng and radius
NearbyAsks ==
    /\ Handles("GET", "/api/stations")
    /\ Truthy(req'.query.lat) /\ Truthy(req'.query.lng) /\ Truthy(req'.query.radius)

\* a list returns records as stored, and all of them when it has no filter
ListReturnsStored ==
    /\ Answers(200)
    /\ Elements(res'[1].body) \subseteq Records(MapOfPath(storage, req'.path))
    /\ req'.query = NoQuery
           => Elements(res'[1].body) = Records(MapOfPath(storage, req'.path))

\* the radius-filtered list returns stored stations with the distance from
\* the query point in place of any stored distance
NearbyReturnsStoredButDistance ==
    /\ Answers(200)
    /\ \A r \in Elements(res'[1].body) :
          /\ r.id \in DOMAIN storage.stations
          /\ "distance" \in DOMAIN r
          /\ r = Spread(storage.stations[r.id], [distance |-> r.distance])

\* a record stays as it is in every step but a PUT or DELETE on its id
RecordsStayUntilPutOrDelete ==
    \A path \in CollectionPaths :
        \A i \in DOMAIN MapOfPath(storage, path) :
            ~( /\ req'.method \in {"PUT", "DELETE"}
               /\ req'.path \in ItemPaths
               /\ EntityOfPath(req'.path) = EntityOfPath(path)
               /\ req'.id = i )
            => /\ i \in DOMAIN MapOfPath(storage', path)
               /\ MapOfPath(storage', path)[i] = MapOfPath(storage, path)[i]

\* C9 as stated: for every entity, a record created by a POST (201, id i) is
\* returned by every GET, by id or in a list, with the submitted fields and
\* the id only, the order of a route's waypoints included, until a PUT or a
\* DELETE on id i
C9_RoundTripEveryGet ==
    [][ /\ PostStoresSubmitted
        /\ GetIdReturnsStored
        /\ (req'.method = "GET" /\ req'.path \in CollectionPaths)
               => ListReturnsStored
        /\ RecordsStayUntilPutOrDelete ]_vars

\* C9, amended: as C9, except that the radius-filtered list of stations
\* carries the computed distance in the field distance
C9_RoundTripButNearbyDistance ==
    [][ /\ PostStoresSubmitted
        /\ GetIdReturnsStored
        /\ (req'.method = "GET" /\ req'.path \in CollectionPaths /\ ~NearbyAsks)
               => ListReturnsStored
        /\ NearbyAsks => NearbyReturnsStoredButDistance
        /\ RecordsStayUntilPutOrDelete ]_vars

\* a route posted with the waypoints 2, 1 is read back by id with the
\* waypoints in that order
C9_Witness ==
    /\ Handled("GET", "/api/routes/:id")
    /\ Answered(200)
    /\ res[1].body.id = req.id
    /\ res[1].body.waypoints = <<2, 1>>
    /\ res[1].body = storage.routes[req.id]

\* the entities with a POST route, and the counter of each
Entities == {"inventoryItems", "deliveries", "routes", "stations", "calendarEvents"}

CounterOf(e) ==
    CASE e = "inventoryItems" -> "nextInventoryItemId"
      [] e = "deliveries" -> "nextDeliveryId"
      [] e = "routes" -> "nextRouteId"
      [] e = "stations" -> "nextStationId"
      [] e = "calendarEvents" -> "nextCalendarEventId"

\* the step creates a record of entity e
Creates(e) ==
    /\ req'.method = "POST" /\ req'.path \in CollectionPaths
    /\ EntityOfPath(req'.path) = e
    /\ Answers(201)

\* C11: the counter of every entity starts at 1; a successful create gets
\* the value of the counter as id, which is greater than every id in the
\* map, and moves the counter up by one; no other step (a failed request, a
\* delete, an update) moves a counter, and every key stays below its
\* counter, so an id is never handed out twice
C11_IdsAutoIncrement ==
    /\ \A e \in Entities : storage[CounterOf(e)] = 1
    /\ [][ \A e \in Entities :
              /\ Creates(e) =>
                    /\ res'[1].body.id = storage[CounterOf(e)]
                    /\ res'[1].body.id \in DOMAIN storage'[e]
                    /\ \A k \in DOMAIN storage[e] : k < res'[1].body.id
                    /\ storage'[CounterOf(e)] = storage[CounterOf(e)] + 1
              /\ ~Creates(e) => storage'[CounterOf(e)] = storage[CounterOf(e)]
              /\ \A k \in DOMAIN storage'[e] : k < storage'[CounterOf(e)] ]_vars

\* delivery 1 was created and deleted; the next delivery gets id 2
C11_Witness ==
    /\ Handled("POST", "/api/deliveries")
    /\ Answered(201)
    /\ res[1].body.id = 2
    /\ DOMAIN storage.deliveries = {2}

\* the insert schema a POST or PUT on the path parses the body with
SchemaOfPath(path) ==
    CASE EntityOfPath(path) = "inventoryItems" -> insertInventoryItemSchema
      [] EntityOfPath(path) = "deliveries" -> insertDeliverySchema
      [] EntityOfPath(path) = "routes" -> insertRouteSchema
      [] EntityOfPath(path) = "stations" -> insertStationSchema
      [] EntityOfPath(path) = "calendarEvents" -> insertCalendarEventSchema

\* the paths that have a PUT route, and those that have a GET by id
PutPaths == {"/api/inventory/:id", "/api/deliveries/:id", "/api/calendar/:id"}
GetIdPaths == {"/api/inventory/:id", "/api/deliveries/:id", "/api/routes/:id"}

\* the step is a POST or PUT of an entity
Writes ==
    \/ req'.method = "POST" /\ req'.path \in CollectionPaths
    \/ req'.method = "PUT" /\ req'.path \in PutPaths

\* what the schema of the step finds wrong with its body (a PUT parses with
\* the partial schema)
BodyIssues == ZodIssues(SchemaOfPath(req'.path), req'.method = "PUT", req'.body)

\* C12: a POST or PUT of any entity whose body fails schema validation is
\* answered with 400 and the validation issues, and the store is unchanged
C12_InvalidBodyIs400 ==
    [][ (Writes /\ BodyIssues # {})
        => /\ Answers(400)
           /\ "errors" \in DOMAIN res'[1].body
           /\ res'[1].body.errors = BodyIssues
           /\ storage' = storage ]_vars

\* a PUT with a title of the wrong type on an event in the store: 400, and
\* the event keeps its title
C12_Witness ==
    /\ Handled("PUT", "/api/calendar/:id")
    /\ req.id \in DOMAIN storage.calendarEvents
    /\ "title" \in DOMAIN req.body /\ req.body.title.t = "number"
    /\ Answered(400)
    /\ storage.calendarEvents[req.id].title = "Unload"

\* the step reads or updates, by id, a record that is not in the store
AddressesAbsent ==
    /\ \/ req'.method = "GET" /\ req'.path \in GetIdPaths
       \/ req'.method = "PUT" /\ req'.path \in PutPaths
    /\ req'.id \notin DOMAIN MapOfPath(storage, req'.path)

\* C13 as stated: a GET or PUT by id on an id that is not in the store is
\* answered with 404 and leaves the store unchanged
C13_AbsentIdIs404 ==
    [][ AddressesAbsent => (Answers(404) /\ storage' = storage) ]_vars

\* C13, amended: as C13 for a GET and for a PUT whose body passes
\* validation; a PUT whose body fails validation is answered with 400
\* instead, and in both cases the store is unchanged
C13_AbsentIdIs404IfBodyValid ==
    [][ AddressesAbsent
        => /\ storage' = storage
           /\ IF req'.method = "PUT" /\ BodyIssues # {}
              THEN Answers(400)
              ELSE Answers(404) ]_vars

\* a valid PUT on a delivery id that is not in the store, while another
\* delivery is: 404 and no record under that id
C13_Witness ==
    /\ Handled("PUT", "/api/deliveries/:id")
    /\ req.body = [status |-> Str("scheduled")]
    /\ Answered(404)
    /\ req.id \notin DOMAIN storage.deliveries
    /\ storage.deliveries # EmptyMap

\* the step raises an exception inside the try block of the handler: the
\* call of the model is rejected, or JSON.parse rejects the fragment
Raises == Handles("POST", OptimizePath) /\ OptimizeTry(genAI, req').thrown

AppliedInOrder(s, t) ==
    /\ inflight[s].pc = "done" /\ inflight[t].pc = "done"
    /\ inflight[s].rq.id = inflight[t].rq.id
    /\ 0 < inflight[s].turn /\ inflight[s].turn < inflight[t].turn

\* C15: when two updates of the same inventory item have both been applied
\* and answered, both were answered 200, and every field both updates set
\* holds the value of the update applied last
C15_LastWriteWins ==
    \A s, t \in Slots :
       AppliedInOrder(s, t)
       => /\ inflight[s].sent[1].status = 200
          /\ inflight[t].sent[1].status = 200
          /\ \A f \in (DOMAIN inflight[s].item) \cap (DOMAIN inflight[t].item) :
                storage.inventoryItems[inflight[t].rq.id][f] = inflight[t].item[f]

\* two updates in flight together with the awaiting updateInventoryItem:
\* both read the item with quantity 3, the first sets quantity -1, the
\* second, applied last, sets 3; both got 200 and the quantity is 3
C15_Witness ==
    /\ awaitsRead
    /\ AppliedInOrder(1, 2)
    /\ inflight[1].item = [quantity |-> -1]
    /\ "quantity" \in DOMAIN inflight[2].item /\ inflight[2].item.quantity = 3
    /\ inflight[1].existingItem = inflight[2].existingItem
    /\ inflight[2].existingItem[1].quantity = 3
    /\ inflight[1].sent[1].status = 200 /\ inflight[2].sent[1].status = 200
    /\ storage.inventoryItems[inflight[2].rq.id].quantity = 3

\* the delivery ids a route or calendar event body names
Referenced(body) ==
    (IF "waypoints" \in DOMAIN body /\ body.waypoints.t = "array"
     THEN Elements(body.waypoints.v) ELSE {})
    \cup (IF "relatedDeliveryId" \in DOMAIN body /\ body.relatedDeliveryId.t = "number"
          THEN {body.relatedDeliveryId.v} ELSE {})

\* the step posts a route or calendar event whose body passes its schema and
\* names a delivery that is not in the store
PostsDangling ==
    /\ req'.method = "POST" /\ req'.path \in {"/api/routes", "/api/calendar"}
    /\ BodyIssues = {}
    /\ Referenced(req'.body) \ DOMAIN storage.deliveries # {}

\* C16: a route or calendar event that names a delivery not in the store is
\* created (201) with the reference as submitted; a DELETE of a delivery in
\* the store is answered 204 whoever names it, and a DELETE of a delivery
\* leaves the routes and the calendar events as they were
C16_ReferencesNotChecked ==
    [][ /\ PostsDangling
            => /\ Answers(201)
               /\ MapOfPath(storage', req'.path)[res'[1].body.id]
                     = Spread(Untagged(req'.body), [id |-> res'[1].body.id])
        /\ Handles("DELETE", "/api/deliveries/:id")
            => /\ storage'.routes = storage.routes
               /\ storage'.calendarEvents = storage.calendarEvents
               /\ req'.id \in DOMAIN storage.deliveries
                     => (Answers(204) /\ req'.id \notin DOMAIN storage'.deliveries)
      ]_vars

\* a delivery that a stored route names as a waypoint was deleted: 204, and
\* the route is in the store with the waypoint
C16_Witness ==
    /\ Handled("DELETE", "/api/deliveries/:id")
    /\ Answered(204)
    /\ req.id \notin DOMAIN storage.deliveries
    /\ \E k \in DOMAIN storage.routes :
          req.id \in Elements(storage.routes[k].waypoints)

\* the step is a login
LogsIn == Handles("POST", "/api/auth/login")

\* the login body has no username, or no password, or a falsy one (the
\* empty string, 0)
Incomplete(body) == Falsy(body, "username") \/ Falsy(body, "password")

\* the users of the store with the username and password of the body
Matching(st, body) ==
    {u \in Records(st.users) :
        /\ body.username.t = "string" /\ u.username = body.username.v
        /\ body.password.t = "string" /\ u.password = body.password.v}

DemoCredentials ==
    [username |-> Str("john.driver"), password |-> Str("password123")]

\* C17: a login without username or password is answered with 400, one
\* whose username is unknown or whose password is not the stored one with
\* 401, any other with 200; the demo credentials are answered with 200 in
\* every state; and a login leaves the store unchanged
C17_LoginStatus ==
    [][ LogsIn
        => /\ storage' = storage
           /\ Answers(IF Incomplete(req'.body) THEN 400
                      ELSE IF Matching(storage, req'.body) = {} THEN 401
                      ELSE 200)
           /\ req'.body = DemoCredentials => Answers(200) ]_vars

\* the known username with a wrong password, while an item is in the store:
\* 401
C17_Witness ==
    /\ Handled("POST", "/api/auth/login")
    /\ req.body = [username |-> Str("john.driver"), password |-> Str("letmein")]
    /\ Answered(401)
    /\ storage.inventoryItems # EmptyMap
    /\ storage.users[1].username = "john.driver"

\* C18: no login response has a password field; a successful login returns
\* the stored user with every field but the password; and every 401 is the
\* same response, whether the username is unknown or the password wrong
C18_PasswordNeverReturned ==
    [][ LogsIn
        => /\ "password" \notin DOMAIN res'[1].body
           /\ Answers(200)
                 => /\ DOMAIN res'[1].body = {"user", "message"}
                    /\ \E u \in Matching(storage, req'.body) :
                          /\ res'[1].body.user = Omit(u, "password")
                          /\ DOMAIN res'[1].body.user = (DOMAIN u) \ {"password"}
           /\ Answers(401)
                 => res'[1].body = [message |-> "Invalid username or password"]
      ]_vars

\* the demo user logged in: the response has the user's id, name, role,
\* email and phone number, and not the password the store holds
C18_Witness ==
    /\ Handled("POST", "/api/auth/login")
    /\ Answered(200)
    /\ res[1].body.user = [id |-> 1, username |-> "john.driver",
                           fullName |-> "John Driver", role |-> "Lead Driver",
                           email |-> "john.driver@example.com",
                           phoneNumber |-> "+1234567890"]
    /\ storage.users[1].password = "password123"

\* the step is a DELETE, on an entity that has one, of a record in the store
DeletesStored ==
    /\ req'.method = "DELETE" /\ req'.path \in DeletePaths
    /\ req'.id \in DOMAIN MapOfPath(storage, req'.path)

\* id was handed out for the entity of path and its record has been deleted
Gone(st, path, id) ==
    /\ 0 < id /\ id < st[CounterOf(EntityOfPath(path))]
    /\ id \notin DOMAIN MapOfPath(st, path)

\* the list routes of the entities that have a DELETE route
ListPaths == {"/api/inventory", "/api/deliveries", "/api/calendar"}

C21_PutChangesOnlyBodyFields ==
    [][ (req'.method = "PUT" /\ req'.path \in PutPaths /\ Answers(200))
        => LET e == EntityOfPath(req'.path)
               old == storage[e][req'.id]
               new == storage'[e][req'.id]
               set == (DOMAIN req'.body) \cap (DOMAIN SchemaOfPath(req'.path))
           IN /\ DOMAIN new = (DOMAIN old) \cup set
              /\ \A f \in set \ {"id"} : new[f] = req'.body[f].v
              /\ \A f \in (DOMAIN old) \ set : new[f] = old[f]
              /\ new.id = old.id
              /\ storage' = [storage EXCEPT ![e] = MapSet(@, req'.id, new)] ]_vars

\* C23: when two updates of the same inventory item that set disjoint
\* fields have both been applied and answered, the stored item has the
\* value each of them set
C23_DisjointUpdatesBothApply ==
    \A s, t \in Slots :
       ( /\ AppliedInOrder(s, t)
         /\ (DOMAIN inflight[s].item) \cap (DOMAIN inflight[t].item) = {} )
       => LET stored == storage.inventoryItems[inflight[t].rq.id]
          IN /\ \A f \in DOMAIN inflight[s].item : stored[f] = inflight[s].item[f]
             /\ \A f \in DOMAIN inflight[t].item : stored[f] = inflight[t].item[f]

\* C22: an inventory item that was deleted is never in the map again,
\* whatever update of it was in flight when it was deleted
C22_DeletedNeverReinserted ==
    [][ \A id \in Ids :
           Gone(storage, "/api/inventory/:id", id)
           => id \notin DOMAIN storage'.inventoryItems ]_vars

\* the instant h lies on the day that the string s names
OnDay(h, s) == \E k \in DOMAIN DayNames : DayNames[k] = s /\ h \div 24 = k - 1

\* record r is assigned to the driver that the string s names
OfDriver(r, s) ==
    /\ "assignedDriver" \in DOMAIN r
    /\ \/ s = "1" /\ r.assignedDriver = 1
       \/ s = "2" /\ r.assignedDriver = 2

\* the instant h lies between the midnights that begin the days start and end
InRange(h, start, end) ==
    \E k, l \in DOMAIN DayNames :
       /\ DayNames[k] = start
       /\ DayNames[l] = end
       /\ (k - 1) * 24 <= h
       /\ h <= (l - 1) * 24

\* the one predicate that the query q chooses on the list route path, by the
\* precedence of the route, applied to the record r
Chosen(path, q, r) ==
    CASE path = "/api/deliveries" ->
           IF Truthy(q.status)
           THEN "status" \in DOMAIN r /\ r.status = q.status[1]
           ELSE IF Truthy(q.driverId) THEN OfDriver(r, q.driverId[1])
           ELSE IF Truthy(q.date) THEN OnDay(r.scheduledTime, q.date[1])
           ELSE TRUE
      [] path = "/api/routes" ->
           IF Truthy(q.driverId) THEN OfDriver(r, q.driverId[1])
           ELSE IF Truthy(q.date) THEN OnDay(r.date, q.date[1])
           ELSE TRUE
      [] path = "/api/calendar" ->
           IF Truthy(q.driverId) THEN OfDriver(r, q.driverId[1])
           ELSE IF Truthy(q.start) /\ Truthy(q.end)
           THEN InRange(r.startTime, q.start[1], q.end[1])
           ELSE TRUE

FilteredPaths == {"/api/deliveries", "/api/routes", "/api/calendar"}

\* C24: a GET of the deliveries, the routes or the calendar is answered 200
\* with exactly the stored records that satisfy one predicate, each once:
\* that of the first parameter given, in the order status, driverId, date
\* for deliveries, driverId, date for routes, and driverId, start with end
\* for the calendar; with none of them, every record
C24_OneFilterByPrecedence ==
    [][ (req'.method = "GET" /\ req'.path \in FilteredPaths)
        => LET chosen == {r \in Records(MapOfPath(storage, req'.path)) :
                             Chosen(req'.path, req'.query, r)}
           IN /\ Answers(200)
              /\ Elements(res'[1].body) = chosen
              /\ Len(res'[1].body) = Cardinality(chosen)
              /\ storage' = storage ]_vars

\* deliveries asked by status and by driver at once, answered with a
\* delivery of that status that belongs to another driver
C24_Witness ==
    /\ Handled("GET", "/api/deliveries")
    /\ Truthy(req.query.status)
    /\ Truthy(req.query.driverId)
    /\ Answered(200)
    /\ \E k \in 1..Len(res[1].body) :
          /\ res[1].body[k].status = req.query.status[1]
          /\ res[1].body[k].assignedDriver = 2
          /\ req.query.driverId[1] = "1"
    /\ Len(res[1].body) < Cardinality(DOMAIN storage.deliveries)

\* the request is that of the week view: the first and the last day of a week
WeekAsked ==
    /\ Handles("GET", "/api/calendar")
    /\ ~Truthy(req'.query.driverId)
    /\ \E d \in CurrentDates : req'.query = WeekQuery(d)

\* C25: the week view's GET /api/calendar returns every stored event whose
\* startTime lies on one of the 7 displayed days, at any time of the day,
\* and no other event
C25_WeekViewGetsWholeWeek ==
    [][ WeekAsked
        => /\ Answers(200)
           /\ Elements(res'[1].body)
                = {event \in Records(storage.calendarEvents) :
                      \E k \in DOMAIN DayNames :
                         OnDay(event.startTime, DayNames[k])} ]_vars

\* deliveries of the body is not a non-empty array
NoDeliveries(body) ==
    \/ "deliveries" \notin DOMAIN body
    \/ body.deliveries.t # "array"
    \/ Len(body.deliveries.v) = 0

\* startLocation of the body lacks a numeric lat or lng
NoCoordinates(body) ==
    \/ "startLocation" \notin DOMAIN body
    \/ body.startLocation.t # "object"
    \/ \E f \in {"lat", "lng"} :
          \/ f \notin DOMAIN body.startLocation.v
          \/ body.startLocation.v[f].t # "number"

\* C26: with a key, POST /api/routes/optimize is answered 400 exactly when
\* deliveries is not a non-empty array or startLocation lacks a numeric lat
\* or lng; a body with deliveries and numeric coordinates, zero included,
\* reaches the generative model
C26_ZeroCoordinatesAccepted ==
    [][ (Handles("POST", "/api/routes/optimize") /\ genAI)
        => /\ Answers(400) <=> (NoDeliveries(req'.body) \/ NoCoordinates(req'.body))
           /\ ~(NoDeliveries(req'.body) \/ NoCoordinates(req'.body))
                 => calls' = 1 ]_vars

\* C26, for start locations off the equator and the prime meridian only:
\* the body is answered 400 exactly when deliveries is missing, not an array
\* or empty, or a coordinate is missing, zero or the empty string
C26_NonZeroCoordinatesAccepted ==
    [][ (Handles("POST", "/api/routes/optimize") /\ genAI)
        => LET body == req'.body
               refused == \/ NoDeliveries(body)
                          \/ "startLocation" \notin DOMAIN body
                          \/ body.startLocation.t # "object"
                          \/ \E f \in {"lat", "lng"} :
                                \/ f \notin DOMAIN body.startLocation.v
                                \/ body.startLocation.v[f] \in {Num(0), Str("")}
           IN /\ Answers(400) <=> refused
              /\ ~refused => calls' = 1 ]_vars

\* what C27 asks of the state a and of a step to the state b
PagesNeedLogin(a, b) ==
    /\ Router(b) \in ProtectedPages => b.isAuthenticated
    /\ (~b.isAuthenticated /\ b.location \in ProtectedPaths)
          => Router(b) = "null"
    /\ (~a.isAuthenticated /\ a.location \in ProtectedPaths)
          => ENABLED ProtectedRouteEffect
    /\ ProtectedRouteEffect => b.location = "/login"
    /\ Logout => (~b.isAuthenticated /\ b.user = None)
    /\ (Handles("POST", "/api/auth/login") /\ ~Answers(200))
          => (b.isAuthenticated = a.isAuthenticated /\ b.user = a.user)

\* C27: in every reachable state of the browser, a protected page is
\* rendered only while isAuthenticated is true
C27_ProtectedPagesNeedLogin ==
    Router(auth) \in ProtectedPages => auth.isAuthenticated

\* C27 for the Router of unnamed/part_001, which wraps every page in
\* ProtectedRoute: a protected page is rendered only while isAuthenticated
\* is true; while it is false and the location is that of a protected page,
\* nothing is rendered and the effect that moves to /login is due; logout()
\* leaves isAuthenticated false and user null; a login that fails leaves
\* both as they were
C27_ProtectedRouteNeedsLogin ==
    [][ auth.router = "part_001" => PagesNeedLogin(auth, auth') ]_vars

\* every item that only the plus button was clicked on holds the quantity
\* it was created with, raised by the number of those clicks
RaisedByClicks ==
    \A id \in DOMAIN storage.inventoryItems :
       modal.lowered[id] = 0
       => storage.inventoryItems[id].quantity = 1 + modal.raised[id]

\* no quantity update, under way or being handled, carries a quantity below 0
NoNegativeSent ==
    /\ \A k \in DOMAIN modal.updates : modal.updates[k].quantity >= 0
    /\ (req.method = "PUT" /\ req.path = "/api/inventory/:id")
          => req.body.quantity.v >= 0

\* C28: the stored quantity of an item is, from some moment on, the one it
\* was created with raised by the number of clicks on its plus button,
\* however the clicks fall between the fetches of the list; and no click on
\* a minus button sends a quantity below 0
C28_EveryClickCounts ==
    <>[]RaisedByClicks /\ []NoNegativeSent

\* C28, the minus button alone: no quantity below 0 is ever sent
C28_NeverBelowZero == NoNegativeSent

\* the entity maps of the store
EntityMaps(st) ==
    {st.users, st.inventoryItems, st.deliveries, st.routes, st.stations,
     st.calendarEvents}

\* C19: in every reachable state, every record of every map carries the key
\* it is stored under as its id
C19_IdEqualsKey ==
    \A m \in EntityMaps(storage) :
        \A k \in DOMAIN m : m[k].id = k

\* C10: in every reachable state, no two records of a map carry the same id
C10_UniqueIds ==
    \A m \in EntityMaps(storage) :
        \A i, j \in DOMAIN m : i # j => m[i].id # m[j].id

====
